---- MODULE Spec2Model ----
(***************************************************************************)
(* A model of vkbind's build tool (source/vkbind_build.cpp): the registry  *)
(* model, the dependency resolver, the extension reorderer, the main       *)
(* emitter and the loader-table emitters.                                  *)
(*                                                                         *)
(* Strings of the program are TLA+ strings; "" is the empty std::string.   *)
(* Vectors are sequences (1-based here, 0-based in the C++ code).  Text    *)
(* that the program appends to codeOut is kept as a sequence of records,   *)
(* one per declaration written, in the order written.                      *)
(***************************************************************************)
EXTENDS Integers, Sequences, FiniteSets, TLC

VARIABLES
    context,        \* vkbBuild: platforms, tags, types, enums, commands, features, extensions
    codegenState,   \* vkbBuildCodeGenState of vkbBuildGenerateCode_C_Main
    codeOut,        \* the main fragment: the declarations written so far
    fragments,      \* the loader fragments generated so far, by tag
    pc,             \* the position of the build in its pipeline
    iPlatform,      \* the platform loop counter of vkbBuildGenerateCode_C_Main (1-based)
    NDEBUG,         \* whether the tool was compiled with assert() disabled
    files,          \* the files the tool reads and writes: the template and vkbind.h
    outputStr,      \* outputStr of vkbBuildGenerateLib_C
    iTag,           \* the tag loop counter of vkbBuildGenerateLib_C (1-based)
    exitCode,       \* what the process returned to its caller, once pc = "exited"
    failures,       \* the failures that happened during the run (history)
    g_vkbInitCount, \* vkbind_template.h: static unsigned int g_vkbInitCount
    g_vkbVulkanSO,  \* vkbind_template.h: static VkbHandle g_vkbVulkanSO
    dl,             \* the dynamic linker: how often the Vulkan library was opened and closed
    globalAPI,      \* the global function pointers of the emitted header
    api,            \* the caller's VkbAPI object
    unmatched,      \* successful vkbInit calls not yet matched by a vkbUninit (history)
    lastCall        \* the last call made into the emitted loader and what it returned

\* The state of one run of the tool after the registry was parsed.
toolVars == <<files, outputStr, iTag, exitCode, failures>>

\* The state of a program that uses the emitted loader.
loaderVars == <<g_vkbInitCount, g_vkbVulkanSO, dl, globalAPI, api, unmatched, lastCall>>

vars == <<context, codegenState, codeOut, fragments, pc, iPlatform, NDEBUG, toolVars, loaderVars>>

\* The tool has not run and no program has called the emitted loader.
ToolAtRest ==
    /\ files = <<>>
    /\ outputStr = ""
    /\ iTag = 1
    /\ exitCode = 0
    /\ failures = {}

LoaderAtRest ==
    /\ g_vkbInitCount = 0
    /\ g_vkbVulkanSO = "NULL"
    /\ dl = <<>>
    /\ globalAPI = <<>>
    /\ api = <<>>
    /\ unmatched = 0
    /\ lastCall = <<>>

-----------------------------------------------------------------------------
(* Generic helpers.                                                        *)

Range(s) == {s[i] : i \in 1..Len(s)}

MinOf(S) == CHOOSE x \in S : \A y \in S : x <= y

\* template <typename T> bool vkbContains(const std::vector<T> &list, T value)
vkbContains(list, value) == \E i \in 1..Len(list) : list[i] = value

\* Positions of a value in a sequence.
PositionsOf(list, value) == {i \in 1..Len(list) : list[i] = value}

RECURSIVE Concat(_)
Concat(ss) == IF ss = <<>> THEN <<>> ELSE Head(ss) \o Concat(Tail(ss))

\* A local: In applied to the value, once that is evaluated.
With(value, In(_)) == CHOOSE result \in {In(v) : v \in {value}} : TRUE

\* A for loop over a vector that updates an accumulator.  (value and rest name
\* the accumulator and the remaining elements once evaluated.)
RECURSIVE ForEach(_, _, _)
ForEach(Body(_, _), acc, list) ==
    CHOOSE result \in {IF rest = <<>> THEN value
                       ELSE ForEach(Body, Body(value, Head(rest)), Tail(rest)) :
                           value \in {acc}, rest \in {list}} : TRUE

\* Remove the element at position i / insert e so that it ends up at position i.
EraseAt(s, i) == SubSeq(s, 1, i - 1) \o SubSeq(s, i + 1, Len(s))
InsertAt(s, i, e) == SubSeq(s, 1, i - 1) \o <<e>> \o SubSeq(s, i, Len(s))

-----------------------------------------------------------------------------
(* std::string operations.  Positions are 1-based here; 0 stands for       *)
(* std::string::npos.                                                      *)

\* The character of s at position i.
CharAt(s, i) == SubSeq(s, i, i)

\* std::string::find(pat, from)
StrFind(s, pat, from) ==
    LET hits == {i \in from..(Len(s) - Len(pat) + 1) : SubSeq(s, i, i + Len(pat) - 1) = pat}
    IN  IF hits = {} THEN 0 ELSE MinOf(hits)

\* std::isspace in the "C" locale
IsSpace(c) == c \in {" ", "\t", "\n", "\r", "\f"}

vkbLTrim(s) ==
    LET kept == {i \in 1..Len(s) : ~IsSpace(CharAt(s, i))}
    IN  IF kept = {} THEN "" ELSE SubSeq(s, MinOf(kept), Len(s))

vkbRTrim(s) ==
    LET kept == {i \in 1..Len(s) : ~IsSpace(CharAt(s, i))}
    IN  IF kept = {} THEN "" ELSE SubSeq(s, 1, CHOOSE i \in kept : \A j \in kept : j <= i)

vkbTrim(s) == vkbLTrim(vkbRTrim(s))

RECURSIVE ReplaceAllFrom(_, _, _, _)
ReplaceAllFrom(source, from, to, lastPos) ==
    With(StrFind(source, from, lastPos), LAMBDA findPos :
        IF findPos = 0 THEN SubSeq(source, lastPos, Len(source))
        ELSE SubSeq(source, lastPos, findPos - 1) \o to
                 \o ReplaceAllFrom(source, from, to, findPos + Len(from)))

\* The mutation that replaces the first occurrence only.
ReplaceAll_FirstOnly(source, from, to) ==
    With(StrFind(source, from, 1), LAMBDA findPos :
        IF findPos = 0 THEN source
        ELSE SubSeq(source, 1, findPos - 1) \o to
                 \o SubSeq(source, findPos + Len(from), Len(source)))

vkbReplaceAll(source, from, to) == ReplaceAllFrom(source, from, to, 1)

\* The loop of vkbBuildCleanDefineValue: every line comment is erased, with its
\* end of line when the comment starts the line.
RECURSIVE RemoveLineComments(_)
RemoveLineComments(result) ==
    LET findPos == StrFind(result, "//", 1)
        deleteEOLCharacter == findPos = 1 \/ CharAt(result, findPos - 1) = "\n"
        eolFound == StrFind(result, "\n", findPos + 2)
        eolPos == IF eolFound = 0 THEN Len(result) + 1
                  ELSE IF deleteEOLCharacter THEN eolFound + 1
                  ELSE IF CharAt(result, eolFound - 1) = "\r" THEN eolFound - 1
                  ELSE eolFound
    IN  IF findPos = 0 THEN result
        ELSE RemoveLineComments(SubSeq(result, 1, findPos - 1)
                                    \o SubSeq(result, eolPos, Len(result)))

vkbBuildCleanDefineValue(value) ==
    RemoveLineComments(vkbReplaceAll(vkbTrim(value), "\\\n", ""))

-----------------------------------------------------------------------------
(* The registry model (struct vkbBuild and its parts).                     *)

\* struct vkbBuildStructMember / vkbBuildFunctionParameter: the fields the generator reads.
Param(type, arrayEnum) == [type |-> type, arrayEnum |-> arrayEnum]

\* struct vkbBuildType
BuildType(name, category, alias, type, requires, bitvalues, parent, members, returnType, params) ==
    [name |-> name, category |-> category, alias |-> alias, type |-> type,
     requires |-> requires, bitvalues |-> bitvalues, parent |-> parent,
     members |-> members, returnType |-> returnType, params |-> params,
     verbatimValue |-> ""]

\* A type with the text of its XML element (kept for define and basetype types).
WithVerbatimValue(type, text) == [type EXCEPT !.verbatimValue = text]

\* struct vkbBuildEnum
BuildEnum(name, alias, value, bitpos) ==
    [name |-> name, alias |-> alias, value |-> value, bitpos |-> bitpos]

\* struct vkbBuildEnums
BuildEnums(name, type, enums) == [name |-> name, type |-> type, enums |-> enums]

\* struct vkbBuildCommand
BuildCommand(name, alias, returnType, parameters) ==
    [name |-> name, alias |-> alias, returnType |-> returnType, parameters |-> parameters]

\* struct vkbBuildRequireEnum.  Numeric attributes (bitpos, extnumber, offset) are
\* the strings the XML holds, "" when absent.
BuildRequireEnum(name, alias, value, extends, bitpos, extnumber, offset, dir) ==
    [name |-> name, alias |-> alias, value |-> value, extends |-> extends,
     bitpos |-> bitpos, extnumber |-> extnumber, offset |-> offset, dir |-> dir]

\* struct vkbBuildRequire
BuildRequire(types, enums, commands) ==
    [types |-> types, enums |-> enums, commands |-> commands]

\* struct vkbBuildFeature
BuildFeature(name, number, requires) ==
    [name |-> name, number |-> number, requires |-> requires]

\* struct vkbBuildExtension
BuildExtension(name, number, platform, promotedto, deprecatedby, requires) ==
    [name |-> name, number |-> number, platform |-> platform,
     promotedto |-> promotedto, deprecatedby |-> deprecatedby, requires |-> requires]

\* struct vkbBuildPlatform
BuildPlatform(name, protect) == [name |-> name, protect |-> protect]

\* struct vkbBuild
Build(platforms, tags, types, enums, commands, features, extensions) ==
    [platforms |-> platforms, tags |-> tags, types |-> types, enums |-> enums,
     commands |-> commands, features |-> features, extensions |-> extensions]

EmptyBuild == Build(<<>>, <<>>, <<>>, <<>>, <<>>, <<>>, <<>>)

\* struct vkbBuildCodeGenState
EmptyCodeGenState ==
    [featureDependencies |-> <<>>, extensionDependencies |-> <<>>,
     outputDefines |-> <<>>, outputTypes |-> <<>>, outputCommands |-> <<>>]

-----------------------------------------------------------------------------
(* Lookups by name: the first match, 0 when there is none.                 *)

FirstIndex(list, name) ==
    LET hits == {i \in 1..Len(list) : list[i].name = name}
    IN  IF hits = {} THEN 0 ELSE MinOf(hits)

vkbBuildFindTypeByName(ctx, name) == FirstIndex(ctx.types, name)
vkbBuildFindEnumByName(ctx, name) == FirstIndex(ctx.enums, name)
vkbBuildFindCommandByName(ctx, name) == FirstIndex(ctx.commands, name)
vkbBuildFindExtensionByName(ctx, name) == FirstIndex(ctx.extensions, name)

-----------------------------------------------------------------------------
(* The dependency resolver.                                                *)
(*                                                                         *)
(* deps is a vkbBuildCodeGenDependencies: typeIndexes and enumIndexes.     *)
(* The C++ recursion has no guard against re-entering a type that is still *)
(* being resolved; a chain of nested calls longer than the number of types *)
(* repeats a type and therefore never returns (the stack overflows).       *)
(* deps.overflow records that outcome.                                     *)

EmptyDependencies == [typeIndexes |-> <<>>, enumIndexes |-> <<>>, overflow |-> FALSE]

vkbBuildAddEnumDependencies(ctx, enumName, deps) ==
    LET enumIndex == vkbBuildFindEnumByName(ctx, enumName)
    IN  IF enumIndex = 0 THEN deps
        ELSE IF vkbContains(deps.enumIndexes, enumIndex) THEN deps
        ELSE [deps EXCEPT !.enumIndexes = Append(@, enumIndex)]

\* The type/requires/bitvalues links that are followed when non-empty.
LinkItems(names) ==
    LET nonEmpty == SelectSeq(names, LAMBDA n : n # "")
    IN  [i \in 1..Len(nonEmpty) |-> Param(nonEmpty[i], "")]

RECURSIVE vkbBuildAddTypeDependencies(_, _, _, _)
RECURSIVE AddItemDependencies(_, _, _, _, _)

\* The loops over struct members and function pointer parameters. skip is the
\* name of the struct being resolved ("" when nothing is skipped).
AddItemDependencies(ctx, items, skip, deps, depth) ==
    IF items = <<>> \/ deps.overflow THEN deps
    ELSE LET m == Head(items)
             d1 == IF m.arrayEnum # ""
                      THEN vkbBuildAddEnumDependencies(ctx, m.arrayEnum, deps)
                      ELSE deps
         IN  IF skip # "" /\ m.type = skip
                THEN AddItemDependencies(ctx, Tail(items), skip, deps, depth)
                ELSE AddItemDependencies(ctx, Tail(items), skip,
                        vkbBuildAddTypeDependencies(ctx, m.type, d1, depth), depth)

\* The category-specific part of vkbBuildAddTypeDependencies.
AddCategoryDependencies(ctx, type, typeName, d1, depth) ==
    IF type.category \in {"define", "basetype", "bitmask", "handle", "enum"}
       THEN AddItemDependencies(ctx,
                LinkItems(<<type.type, type.requires, type.bitvalues>>),
                "", d1, depth + 1)
    ELSE IF type.category \in {"struct", "union"}
       THEN AddItemDependencies(ctx, type.members, typeName, d1, depth + 1)
    ELSE IF type.category = "funcpointer"
       THEN AddItemDependencies(ctx,
                <<Param(type.returnType, "")>> \o type.params,
                "", d1, depth + 1)
    ELSE IF type.category = ""
       THEN AddItemDependencies(ctx,
                LinkItems(<<type.requires, type.bitvalues>>),
                "", d1, depth + 1)
    ELSE d1

\* Mutant: the type is pushed before its dependencies are resolved.
AddTypeDependencies_PushFirst(ctx, typeName, deps, depth) ==
    LET typeIndex == vkbBuildFindTypeByName(ctx, typeName) IN
    IF deps.overflow \/ typeIndex = 0 THEN deps
    ELSE IF depth > Len(ctx.types) THEN [deps EXCEPT !.overflow = TRUE]
    ELSE IF vkbContains(deps.typeIndexes, typeIndex) THEN deps
    ELSE
        LET type == ctx.types[typeIndex]
            d0 == [deps EXCEPT !.typeIndexes = Append(@, typeIndex)]
            d1 == IF type.alias # ""
                     THEN vkbBuildAddTypeDependencies(ctx, type.alias, d0, depth + 1)
                     ELSE d0
        IN  AddCategoryDependencies(ctx, type, typeName, d1, depth)

vkbBuildAddTypeDependencies(ctx, typeName, deps, depth) ==
    LET typeIndex == vkbBuildFindTypeByName(ctx, typeName) IN
    IF deps.overflow \/ typeIndex = 0 THEN deps
    ELSE IF depth > Len(ctx.types) THEN [deps EXCEPT !.overflow = TRUE]
    ELSE
        LET type == ctx.types[typeIndex]
            d1 == IF type.alias # ""
                     THEN vkbBuildAddTypeDependencies(ctx, type.alias, deps, depth + 1)
                     ELSE deps
            d2 == AddCategoryDependencies(ctx, type, typeName, d1, depth)
        IN  IF d2.overflow \/ vkbContains(d2.typeIndexes, typeIndex) THEN d2
            ELSE [d2 EXCEPT !.typeIndexes = Append(@, typeIndex)]

vkbBuildAddCommandDependencies(ctx, commandName, deps) ==
    LET commandIndex == vkbBuildFindCommandByName(ctx, commandName)
    IN  IF commandIndex = 0 THEN deps
        ELSE LET command == ctx.commands[commandIndex]
             IN  AddItemDependencies(ctx,
                     <<Param(command.returnType, "")>>
                         \o [i \in 1..Len(command.parameters) |->
                                Param(command.parameters[i].type, "")],
                     "", deps, 1)

RECURSIVE AddRequireEnums(_, _, _)
AddRequireEnums(ctx, enums, deps) ==
    IF enums = <<>> THEN deps
    ELSE AddRequireEnums(ctx, Tail(enums),
             vkbBuildAddEnumDependencies(ctx, Head(enums).name, deps))

RECURSIVE AddRequireCommands(_, _, _)
AddRequireCommands(ctx, commands, deps) ==
    IF commands = <<>> THEN deps
    ELSE AddRequireCommands(ctx, Tail(commands),
             vkbBuildAddCommandDependencies(ctx, Head(commands), deps))

\* vkbBuildCodeGenDependencies::ParseRequire
ParseRequire(ctx, require, deps) ==
    LET d1 == AddItemDependencies(ctx,
                  [i \in 1..Len(require.types) |-> Param(require.types[i], "")],
                  "", deps, 1)
        d2 == AddRequireEnums(ctx, require.enums, d1)
    IN  AddRequireCommands(ctx, require.commands, d2)

RECURSIVE ParseRequires(_, _, _)
ParseRequires(ctx, requires, deps) ==
    IF requires = <<>> THEN deps
    ELSE ParseRequires(ctx, Tail(requires), ParseRequire(ctx, Head(requires), deps))

\* vkbBuildCodeGenDependencies::ParseFeatureDependencies / ParseExtensionDependencies
ParseFeatureDependencies(ctx, feature) == ParseRequires(ctx, feature.requires, EmptyDependencies)
ParseExtensionDependencies(ctx, extension) == ParseRequires(ctx, extension.requires, EmptyDependencies)

-----------------------------------------------------------------------------
(* The extension reorderer.                                                *)

RECURSIVE ReinsertPromoted(_, _)
ReinsertPromoted(extensions, promotedExtensions) ==
    IF promotedExtensions = <<>> THEN extensions
    ELSE LET promoted == Head(promotedExtensions)
             iOldIndex == FirstIndex(extensions, promoted.name)
             iNewIndex == FirstIndex(extensions, promoted.promotedto)
         IN  IF iOldIndex # 0 /\ iNewIndex # 0
                THEN ReinsertPromoted(
                         InsertAt(EraseAt(extensions, iOldIndex), iNewIndex, promoted),
                         Tail(promotedExtensions))
                ELSE ReinsertPromoted(extensions, Tail(promotedExtensions))

\* A reorder that takes the promoted extensions out and does not put them back.
ReorderExtensions_PromotedDropped(extensions) ==
    SelectSeq(extensions, LAMBDA e : e.promotedto = "")

vkbBuildReorderExtensions(extensions) ==
    ReinsertPromoted(extensions, SelectSeq(extensions, LAMBDA e : e.promotedto # ""))

-----------------------------------------------------------------------------
(* vkbBuildGenerateCode_C_Main, step by step.                              *)

\* The reorder that opens vkbBuildGenerateCode_C_Main.
ReorderExtensions ==
    /\ pc = "main"
    /\ context' = [context EXCEPT !.extensions = vkbBuildReorderExtensions(@)]
    /\ pc' = "dependencies"
    /\ UNCHANGED <<codegenState, codeOut, fragments, iPlatform, NDEBUG, toolVars, loaderVars>>

\* The two loops that fill featureDependencies and extensionDependencies.
AllFeatureDependencies(ctx) ==
    [i \in 1..Len(ctx.features) |-> ParseFeatureDependencies(ctx, ctx.features[i])]
AllExtensionDependencies(ctx) ==
    [i \in 1..Len(ctx.extensions) |-> ParseExtensionDependencies(ctx, ctx.extensions[i])]

ResolveDependencies ==
    /\ pc = "dependencies"
    /\ LET fd == AllFeatureDependencies(context)
           ed == AllExtensionDependencies(context)
       IN  IF (\E i \in 1..Len(fd) : fd[i].overflow) \/ (\E j \in 1..Len(ed) : ed[j].overflow)
              THEN /\ pc' = "crashed"
                   /\ UNCHANGED codegenState
              ELSE /\ pc' = "features"
                   /\ codegenState' = [codegenState EXCEPT !.featureDependencies = fd,
                                                           !.extensionDependencies = ed]
    /\ UNCHANGED <<context, codeOut, fragments, iPlatform, NDEBUG, toolVars, loaderVars>>

-----------------------------------------------------------------------------
(* Specification of the dependency resolver over small type graphs.        *)

MaxRequireTypes == 2

ResolveNames == {"A", "B", "C"}
ResolveRefs == ResolveNames \cup {""}

\* The members of a struct: the non-empty references, the second one an array
\* sized by a #define-style enum.
MembersOf(r1, r2) ==
    (IF r1 = "" THEN <<>> ELSE <<Param(r1, "")>>)
        \o (IF r2 = "" THEN <<>> ELSE <<Param(r2, "VK_UUID_SIZE")>>)

ResolveShapesA ==
    {BuildType("A", "struct", "", "", "", "", "", MembersOf(r1, r2), "", <<>>) :
        r1 \in ResolveRefs, r2 \in ResolveRefs}
    \cup {BuildType("A", "struct", a, "", "", "", "", <<>>, "", <<>>) : a \in ResolveNames}
ResolveShapesB ==
    {BuildType("B", "funcpointer", "", "", "", "", "", <<>>, ret,
               IF p = "" THEN <<>> ELSE <<Param(p, "")>>) :
        ret \in {"void", "C"}, p \in ResolveRefs}
ResolveShapesC ==
    {BuildType("C", "bitmask", "", "VkFlags", r, "", "", <<>>, "", <<>>) : r \in ResolveRefs}
    \cup {BuildType("C", "", "", "", r, "", "", <<>>, "", <<>>) : r \in ResolveRefs}

InjectiveSeqs(S, maxLen) ==
    {s \in UNION {[1..n -> S] : n \in 1..maxLen} :
        \A i, j \in 1..Len(s) : i # j => s[i] # s[j]}

ResolveBuilds ==
    {Build(<<>>, <<>>, <<tA, tB, tC>>,
           <<BuildEnums("VK_UUID_SIZE", "", <<BuildEnum("VK_UUID_SIZE", "", "16", "")>>)>>,
           <<BuildCommand("vkCmd", "", "void", <<Param(p, "")>>)>>,
           <<BuildFeature("VK_VERSION_1_0", "1.0", <<BuildRequire(roots, <<>>, <<>>)>>)>>,
           <<BuildExtension("VK_KHR_ext", "1", "", "", "",
                            <<BuildRequire(<<>>, <<>>, <<"vkCmd">>)>>)>>) :
        tA \in ResolveShapesA, tB \in ResolveShapesB, tC \in ResolveShapesC,
        p \in ResolveNames, roots \in InjectiveSeqs(ResolveNames, MaxRequireTypes)}

InitResolve ==
    /\ context \in ResolveBuilds
    /\ codegenState = EmptyCodeGenState
    /\ codeOut = <<>>
    /\ fragments = <<>>
    /\ pc = "main"
    /\ iPlatform = 1
    /\ NDEBUG \in BOOLEAN
    /\ ToolAtRest
    /\ LoaderAtRest

NextResolve == ReorderExtensions \/ ResolveDependencies

SpecResolve == InitResolve /\ [][NextResolve]_vars

-----------------------------------------------------------------------------
(* C1: dependency ordering of the resolver's type list.                    *)

\* The names a type depends on, as the claim lists them.
ClaimDependsOn(type) ==
    (IF type.alias # "" THEN {type.alias} ELSE {})
    \cup (IF type.category \in {"define", "basetype", "bitmask", "handle", "enum", ""}
            THEN {type.type, type.requires, type.bitvalues} \ {""} ELSE {})
    \cup (IF type.category \in {"struct", "union"}
            THEN {type.members[i].type : i \in 1..Len(type.members)} \ {type.name} ELSE {})
    \cup (IF type.category = "funcpointer"
            THEN {type.returnType} \cup {type.params[i].type : i \in 1..Len(type.params)}
            ELSE {})

AllDependencies == codegenState.featureDependencies \o codegenState.extensionDependencies

DependenciesFirst(typeIndexes) ==
    \A p \in 1..Len(typeIndexes) :
        \A b \in ClaimDependsOn(context.types[typeIndexes[p]]) :
            vkbBuildFindTypeByName(context, b) # 0 =>
                \E q \in 1..(p - 1) : typeIndexes[q] = vkbBuildFindTypeByName(context, b)

\* C1: in every type-index list built for a feature or an extension, each type
\* that a listed type depends on (alias target, type/requires/bitvalues link,
\* member type other than itself, function pointer return or parameter type) and
\* that exists in the registry sits at a strictly smaller position.
C1_DependencyOrdering ==
    \A k \in 1..Len(AllDependencies) : DependenciesFirst(AllDependencies[k].typeIndexes)

\* A feature list of three types: an alias after its target, behind a function
\* pointer parameter type.
C1_Witness ==
    /\ pc = "features"
    /\ \E k \in 1..Len(AllDependencies) :
          LET l == AllDependencies[k].typeIndexes
          IN  /\ Len(l) = 3
              /\ \E p \in 1..3 : context.types[l[p]].alias # ""
              /\ \E p \in 1..3 :
                    /\ context.types[l[p]].category = "funcpointer"
                    /\ context.types[l[p]].params # <<>>


-----------------------------------------------------------------------------
(* The extension list: how the parser builds it and how the emitter        *)
(* reorders it.                                                              *)

\* vkbBuildParseExtension: disabled and mir extensions are skipped; any other
\* is pushed at the end, then the first already-listed extension that it
\* deprecates is moved behind it.
FirstDeprecatedBy(extensions, name) ==
    LET hits == {i \in 1..Len(extensions) : extensions[i].deprecatedby = name}
    IN  IF hits = {} THEN 0 ELSE MinOf(hits)

vkbBuildParseExtension(extensions, extension, supported) ==
    IF supported = "disabled" \/ extension.platform = "mir" THEN extensions
    ELSE LET pushed == Append(extensions, extension)
             i == FirstDeprecatedBy(pushed, extension.name)
         IN  IF i = 0 THEN pushed
             ELSE EraseAt(Append(pushed, pushed[i]), i)

\* The <extension> elements of the registry, by name; a name occurs once.
ExtensionNames == {"VK_KHR_a", "VK_KHR_b", "VK_EXT_c"}
\* What promotedto and deprecatedby can name: nothing, another extension, or a
\* core version (which is not in the extension list).
SuccessorNames(name) == ({"", "VK_VERSION_1_1"} \cup ExtensionNames) \ {name}

ParsedNames == {context.extensions[i].name : i \in 1..Len(context.extensions)}

\* One iteration of the loop in vkbBuildParseExtensions.
ParseExtension ==
    /\ pc = "parse"
    /\ \E name \in ExtensionNames \ ParsedNames :
       \E promotedto \in SuccessorNames(name), deprecatedby \in SuccessorNames(name) :
       \E supported \in {"vulkan", "disabled"}, platform \in {"", "mir"} :
          /\ supported = "disabled" => (platform = "" /\ promotedto = "" /\ deprecatedby = "")
          /\ platform = "mir" => (promotedto = "" /\ deprecatedby = "")
          /\ context' = [context EXCEPT !.extensions =
                 vkbBuildParseExtension(@,
                     BuildExtension(name, "1", platform, promotedto, deprecatedby, <<>>),
                     supported)]
    /\ UNCHANGED <<codegenState, codeOut, fragments, pc, iPlatform, NDEBUG, toolVars, loaderVars>>

\* The registry is parsed; main goes on to vkbBuildGenerateLib_C.
ParseDone ==
    /\ pc = "parse"
    /\ pc' = "main"
    /\ UNCHANGED <<context, codegenState, codeOut, fragments, iPlatform, NDEBUG, toolVars, loaderVars>>

InitReorder ==
    /\ context = EmptyBuild
    /\ codegenState = EmptyCodeGenState
    /\ codeOut = <<>>
    /\ fragments = <<>>
    /\ pc = "parse"
    /\ iPlatform = 1
    /\ NDEBUG \in BOOLEAN
    /\ ToolAtRest
    /\ LoaderAtRest

NextReorder == ParseExtension \/ ParseDone \/ ReorderExtensions
SpecReorder == InitReorder /\ [][NextReorder]_vars

ExtensionIndex(name) == vkbBuildFindExtensionByName(context, name)

\* C4: after vkbBuildReorderExtensions, every extension E whose promotedto
\* names an extension P of the list sits immediately after P, whatever their
\* order was before.
C4_PromotedImmediatelyAfter ==
    pc = "dependencies" =>
        \A i \in 1..Len(context.extensions) :
            LET E == context.extensions[i]
                p == ExtensionIndex(E.promotedto)
            IN  (E.promotedto # "" /\ p # 0) => i = p + 1

\* The reorder has run on a list in which some extension is promoted to
\* another extension of the list.
C4_Witness ==
    /\ pc = "dependencies"
    /\ \E i \in 1..Len(context.extensions) :
           /\ context.extensions[i].promotedto # ""
           /\ ExtensionIndex(context.extensions[i].promotedto) # 0

-----------------------------------------------------------------------------
(* Numbers in text: atoi, std::to_string and the printf formats used.      *)

DecimalDigits == "0123456789"
HexDigits == "0123456789abcdef"

IsDigit(c) == Len(c) = 1 /\ StrFind(DecimalDigits, c, 1) # 0
DigitValue(c) == StrFind(DecimalDigits, c, 1) - 1

RECURSIVE AtoiDigits(_, _, _)
AtoiDigits(s, i, acc) ==
    IF i > Len(s) \/ ~IsDigit(CharAt(s, i)) THEN acc
    ELSE AtoiDigits(s, i + 1, acc * 10 + DigitValue(CharAt(s, i)))

\* atoi: leading white space, an optional sign, then digits up to the first
\* character that is not one; 0 when there is no digit.
atoi(s) ==
    LET t == vkbLTrim(s)
        signed == Len(t) > 0 /\ CharAt(t, 1) \in {"-", "+"}
        magnitude == AtoiDigits(t, IF signed THEN 2 ELSE 1, 0)
    IN  IF Len(t) > 0 /\ CharAt(t, 1) = "-" THEN 0 - magnitude ELSE magnitude

RECURSIVE NaturalToString(_)
NaturalToString(n) ==
    IF n < 10 THEN CharAt(DecimalDigits, n + 1)
    ELSE NaturalToString(n \div 10) \o CharAt(DecimalDigits, (n % 10) + 1)

\* std::to_string(int)
to_string(val) == IF val < 0 THEN "-" \o NaturalToString(0 - val) ELSE NaturalToString(val)

\* printf("%08x", 1 << bit) and its like: width hexadecimal digits of the value
\* that has only this bit set.
RECURSIVE HexStringOfBit(_, _)
HexStringOfBit(bit, width) ==
    IF width = 0 THEN ""
    ELSE (IF bit \div 4 = width - 1
             THEN CharAt(HexDigits, (CASE bit % 4 = 0 -> 1 [] bit % 4 = 1 -> 2
                                       [] bit % 4 = 2 -> 4 [] OTHER -> 8) + 1)
             ELSE "0")
         \o HexStringOfBit(bit, width - 1)

\* The value computed from the number itself, not from the number less one.
CalculateExtensionEnumValue_NoMinusOne(requireEnum, extnumber) ==
    LET dir == IF requireEnum.dir = "-" THEN 0 - 1 ELSE 1
        ext == atoi(extnumber)
        off == atoi(requireEnum.offset)
        val == (1000000000 + ext * 1000 + off) * dir
    IN  to_string(val)

\* vkbBuildCalculateExtensionEnumValue(requireEnum, extnumber).  The sum is an
\* int; the registries drawn below keep it within 32 bits (beyond that the C++
\* result is undefined).
vkbBuildCalculateExtensionEnumValue(requireEnum, extnumber) ==
    LET dir == IF requireEnum.dir = "-" THEN 0 - 1 ELSE 1
        ext == atoi(extnumber)
        off == atoi(requireEnum.offset)
        val == (1000000000 + (ext - 1) * 1000 + off) * dir
    IN  to_string(val)

\* Whether assert(bitpos >= 0); assert(bitpos <= 63) passes.
BitPosInRange(bitpos) == bitpos >= 0 /\ bitpos <= 63

\* vkbBuildBitPosToHexString(bitpos) in the place of the Ex variant: from bit
\* 32 on the literal is 0x and sixteen digits, with no cast and no shift.
BitPosToHexString_NoSplit(bitpos, typeName) ==
    IF ~BitPosInRange(bitpos) THEN "<undefined>"
    ELSE IF bitpos < 32 THEN "0x" \o HexStringOfBit(bitpos, 8)
    ELSE "0x" \o HexStringOfBit(bitpos, 16)

\* vkbBuildBitPosToHexStringEx(bitpos, typeName); with a bitpos outside 0..63
\* the shift is undefined and no text is modelled for it.
vkbBuildBitPosToHexStringEx(bitpos, typeName) ==
    IF ~BitPosInRange(bitpos) THEN "<undefined>"
    ELSE IF bitpos < 32 THEN "0x" \o HexStringOfBit(bitpos, 8)
    ELSE "(" \o typeName \o ")(((" \o typeName \o ")0x" \o HexStringOfBit(bitpos - 32, 8)
             \o " << 32) | (0x" \o HexStringOfBit(bitpos, 8) \o "))"

-----------------------------------------------------------------------------
(* Names derived from names.                                               *)

UpperCaseLetters == "ABCDEFGHIJKLMNOPQRSTUVWXYZ"
LowerCaseLetters == "abcdefghijklmnopqrstuvwxyz"

IsUpper(c) == StrFind(UpperCaseLetters, c, 1) # 0
ToUpper(c) ==
    LET i == StrFind(LowerCaseLetters, c, 1)
    IN  IF i = 0 THEN c ELSE CharAt(UpperCaseLetters, i)

RECURSIVE UpperCaseStyleFrom(_, _)
UpperCaseStyleFrom(name, i) ==
    IF i > Len(name) THEN ""
    ELSE (IF IsUpper(CharAt(name, i)) THEN "_" \o CharAt(name, i) ELSE ToUpper(CharAt(name, i)))
             \o UpperCaseStyleFrom(name, i + 1)

vkbNameToUpperCaseStyle(name) == "VK" \o UpperCaseStyleFrom(name, 3)

\* The first tag of the registry that is a proper suffix of the name, "" if none.
vkbExtractTagFromName(ctx, name) ==
    LET hits == {i \in 1..Len(ctx.tags) :
                    /\ Len(name) > Len(ctx.tags[i].name)
                    /\ SubSeq(name, Len(name) - Len(ctx.tags[i].name) + 1, Len(name)) = ctx.tags[i].name}
    IN  IF hits = {} THEN "" ELSE ctx.tags[MinOf(hits)].name

vkbGenerateMaxEnumToken(ctx, enumName) ==
    LET tag == vkbExtractTagFromName(ctx, enumName)
        result == vkbNameToUpperCaseStyle(SubSeq(enumName, 1, Len(enumName) - Len(tag))) \o "_MAX_ENUM"
    IN  IF Len(tag) > 0 THEN result \o "_" \o tag ELSE result

\* The name a function typedef is written under: "PFN_" is prefixed unless the
\* name already holds it.
FunctionTypedefName(name) ==
    IF StrFind(name, "PFN_", 1) = 0 THEN "PFN_" \o name ELSE name

-----------------------------------------------------------------------------
(* The main emitter.  What it appends to codeOut is recorded declaration   *)
(* by declaration: kind, the name declared, the right-hand side (an alias  *)
(* target, a value, an underlying or return type) and, for bodies, the     *)
(* items listed.                                                           *)

Decl(kind, name, rhs, items) == [kind |-> kind, name |-> name, rhs |-> rhs, items |-> items]
Item(name, text) == [name |-> name, text |-> text]
ItemNames(items) == [i \in 1..Len(items) |-> items[i].name]

\* The state an emitter works on: the codegen state, the text written, whether an
\* assert() has failed on the way and whether a recursion has run away.
Gen(state, out) == [state |-> state, codeOut |-> out, assertFailed |-> FALSE, overflow |-> FALSE]

Emit(g, decl) == [g EXCEPT !.codeOut = Append(@, decl)]

HasOutputDefine(g, name) == vkbContains(g.state.outputDefines, name)
HasOutputType(g, name) == vkbContains(g.state.outputTypes, name)
HasOutputCommand(g, name) == vkbContains(g.state.outputCommands, name)

MarkDefineAsOutput(g, name) ==
    [g EXCEPT !.assertFailed = @ \/ HasOutputDefine(g, name),
              !.state.outputDefines = Append(@, name)]
MarkTypeAsOutput(g, name) ==
    [g EXCEPT !.assertFailed = @ \/ HasOutputType(g, name),
              !.state.outputTypes = Append(@, name)]
MarkCommandAsOutput(g, name) ==
    [g EXCEPT !.assertFailed = @ \/ HasOutputCommand(g, name),
              !.state.outputCommands = Append(@, name)]

vkbBuildGenerateCode_C_DependencyIncludes(ctx, g, dependencies) ==
    ForEach(LAMBDA acc, typeIndex :
                LET type == ctx.types[typeIndex]
                IN  IF type.name # "vk_platform" /\ type.category = "include"
                       /\ ~HasOutputType(acc, type.name)
                       THEN MarkTypeAsOutput(Emit(acc, Decl("include", type.name, "", <<>>)), type.name)
                       ELSE acc,
            g, dependencies.typeIndexes)

vkbBuildGenerateCode_C_RequireDefineEnums(g, require) ==
    ForEach(LAMBDA acc, requireEnum :
                IF requireEnum.value # "" /\ requireEnum.extends = ""
                   THEN MarkDefineAsOutput(
                            Emit(acc, Decl("define", requireEnum.name,
                                           IF requireEnum.alias # "" THEN requireEnum.alias
                                                                      ELSE requireEnum.value,
                                           <<>>)),
                            requireEnum.name)
                   ELSE acc,
            g, require.enums)

\* vkbBuildGenerateCode_C_Function, for commands and function pointers.
vkbBuildGenerateCode_C_Function(g, kind, returnType, name, parameters) ==
    Emit(g, Decl(kind, FunctionTypedefName(name), returnType,
                 [i \in 1..Len(parameters) |-> Item("", parameters[i].type)]))

vkbBuildGenerateCode_C_RequireCommands(ctx, g, commands) ==
    ForEach(LAMBDA acc, requireCommand :
                LET iCommand == vkbBuildFindCommandByName(ctx, requireCommand)
                    command == ctx.commands[iCommand]
                    iBaseCommand == vkbBuildFindCommandByName(ctx, command.alias)
                    base == ctx.commands[iBaseCommand]
                IN  IF iCommand = 0 \/ HasOutputCommand(acc, command.name) THEN acc
                    ELSE MarkCommandAsOutput(
                             IF command.alias # ""
                                THEN IF iBaseCommand # 0
                                        THEN vkbBuildGenerateCode_C_Function(
                                                 acc, "command", base.returnType, command.name, base.parameters)
                                        ELSE acc
                                ELSE vkbBuildGenerateCode_C_Function(
                                         acc, "command", command.returnType, command.name, command.parameters),
                             command.name),
            g, commands)

-----------------------------------------------------------------------------
(* Enum bodies.                                                            *)

\* The enum items of all require blocks of a list of features or extensions, in
\* the order the nested loops visit them.
RequireEnumsOf(requires) == Concat([i \in 1..Len(requires) |-> requires[i].enums])
FeatureRequireEnums(ctx) ==
    Concat([i \in 1..Len(ctx.features) |-> RequireEnumsOf(ctx.features[i].requires)])
ExtensionRequireEnums(ctx) ==
    Concat([i \in 1..Len(ctx.extensions) |-> RequireEnumsOf(ctx.extensions[i].requires)])

\* The same, each with the extension number that
\* vkbBuildCalculateExtensionEnumValue is given for it: the item's own extnumber
\* in a feature; in an extension the item's extnumber or, if it has none, the
\* number of the extension.
FeatureExtendingEnums(ctx) ==
    LET es == FeatureRequireEnums(ctx)
    IN  [j \in 1..Len(es) |-> [enum |-> es[j], extnumber |-> es[j].extnumber]]
ExtensionExtendingEnums(ctx) ==
    Concat([i \in 1..Len(ctx.extensions) |->
        LET es == RequireEnumsOf(ctx.extensions[i].requires)
        IN  [j \in 1..Len(es) |->
                [enum |-> es[j],
                 extnumber |-> IF es[j].extnumber # "" THEN es[j].extnumber
                                                       ELSE ctx.extensions[i].number]]])

\* vkbBuildFindEnumValue: the item of that name in the enums of the registry,
\* else in the require blocks of the features, else of the extensions; an alias
\* is followed.  The C++ recursion has no bound: a chain that outlasts fuel
\* has revisited a name and never ends.
AllEnumItems(ctx) == Concat([i \in 1..Len(ctx.enums) |-> ctx.enums[i].enums])
EnumValueNotFound == [found |-> FALSE, overflow |-> FALSE, value |-> BuildEnum("", "", "", "")]

RECURSIVE FindEnumValueFrom(_, _, _, _)
FindEnumValueFrom(items, required, name, fuel) ==
    IF fuel = 0 THEN [EnumValueNotFound EXCEPT !.overflow = TRUE]
    ELSE With(FirstIndex(items, name), LAMBDA i :
         With(FirstIndex(required, name), LAMBDA j :
            IF i # 0
               THEN IF items[i].alias = ""
                       THEN [found |-> TRUE, overflow |-> FALSE, value |-> items[i]]
                       ELSE FindEnumValueFrom(items, required, items[i].alias, fuel - 1)
            ELSE IF j # 0
               THEN IF required[j].alias = ""
                       THEN [found |-> TRUE, overflow |-> FALSE,
                             value |-> BuildEnum(required[j].name, "", required[j].value, required[j].bitpos)]
                       ELSE FindEnumValueFrom(items, required, required[j].alias, fuel - 1)
            ELSE EnumValueNotFound))

\* The search that looks at the items of the <enums> only.
FindEnumValue_BaseOnly(ctx, name) ==
    With(AllEnumItems(ctx), LAMBDA items :
        FindEnumValueFrom(items, <<>>, name, Len(items) + 1))

vkbBuildFindEnumValue(ctx, name) ==
    With(AllEnumItems(ctx), LAMBDA items :
    With(FeatureRequireEnums(ctx) \o ExtensionRequireEnums(ctx), LAMBDA required :
        FindEnumValueFrom(items, required, name, Len(items) + Len(required) + 1)))

\* One of the four loops that extend an enum body: the items of the require
\* blocks that extend this enum, aliased ones or the others, that are not in
\* the body yet.
ExtendItems(items, extending, enumsName, aliased, Text(_)) ==
    ForEach(LAMBDA acc, other :
                IF /\ other.enum.extends = enumsName
                   /\ (other.enum.alias # "") = aliased
                   /\ ~vkbContains(ItemNames(acc), other.enum.name)
                   THEN Append(acc, Item(other.enum.name, Text(other)))
                   ELSE acc,
            items, extending)

\* The text of a value given by bitpos or by value, as the bitmask branch writes it.
BitposOrValue(enumValue, typeName) ==
    IF enumValue.bitpos # "" THEN vkbBuildBitPosToHexStringEx(atoi(enumValue.bitpos), typeName)
    ELSE enumValue.value

\* The items of the body that the bitmask branch writes for the enum a bitmask
\* type links to (typedef enum {...} when 32-bit, static const lines when 64-bit).
BitmaskEnumItems(ctx, enums, using64BitFlags) ==
    LET Base(item) ==
            With(IF using64BitFlags /\ item.alias # "" THEN vkbBuildFindEnumValue(ctx, item.alias)
                                                         ELSE EnumValueNotFound,
                 LAMBDA found :
                    With(IF found.found THEN found.value ELSE item, LAMBDA enumValue :
                        Item(item.name,
                             IF enumValue.bitpos # "" THEN BitposOrValue(enumValue, enums.name)
                             ELSE IF enumValue.alias # "" THEN enumValue.alias
                             ELSE enumValue.value)))
        Plain(other) == BitposOrValue(other.enum, other.enum.extends)
        Aliased(other) ==
            With(IF using64BitFlags THEN vkbBuildFindEnumValue(ctx, other.enum.alias)
                                    ELSE EnumValueNotFound,
                 LAMBDA found :
                    IF found.found THEN BitposOrValue(found.value, other.enum.extends)
                                   ELSE other.enum.alias)
    IN  With(FeatureExtendingEnums(ctx), LAMBDA inFeatures :
        With(ExtensionExtendingEnums(ctx), LAMBDA inExtensions :
        With(ExtendItems(
                 ExtendItems(
                     ExtendItems(
                         ExtendItems([i \in 1..Len(enums.enums) |-> Base(enums.enums[i])],
                                     inFeatures, enums.name, FALSE, Plain),
                         inExtensions, enums.name, FALSE, Plain),
                     inFeatures, enums.name, TRUE, Aliased),
                 inExtensions, enums.name, TRUE, Aliased),
             LAMBDA items :
                IF using64BitFlags THEN items
                ELSE Append(items, Item(vkbGenerateMaxEnumToken(ctx, enums.name), "0x7FFFFFFF")))))

\* Whether writing that body runs into an alias chain that never ends.
BitmaskEnumOverflows(ctx, enums, using64BitFlags) ==
    /\ using64BitFlags
    /\ \/ \E i \in 1..Len(enums.enums) :
              enums.enums[i].alias # "" /\ vkbBuildFindEnumValue(ctx, enums.enums[i].alias).overflow
       \/ \E e \in Range(FeatureRequireEnums(ctx) \o ExtensionRequireEnums(ctx)) :
              e.extends = enums.name /\ e.alias # "" /\ vkbBuildFindEnumValue(ctx, e.alias).overflow

\* The body of an enum whose items are added feature by feature and then
\* extension by extension, the aliased ones of each straight after the others.
EnumItems_AliasedInPlace(ctx, enums) ==
    LET Base(item) == Item(item.name, IF item.alias # "" THEN item.alias ELSE item.value)
        Plain(other) ==
            IF other.enum.value # "" THEN other.enum.value
            ELSE vkbBuildCalculateExtensionEnumValue(other.enum, other.extnumber)
        Aliased(other) == other.enum.alias
    IN  With(FeatureExtendingEnums(ctx), LAMBDA inFeatures :
        With(ExtensionExtendingEnums(ctx), LAMBDA inExtensions :
            Append(ExtendItems(
                       ExtendItems(
                           ExtendItems(
                               ExtendItems([i \in 1..Len(enums.enums) |-> Base(enums.enums[i])],
                                           inFeatures, enums.name, FALSE, Plain),
                               inFeatures, enums.name, TRUE, Aliased),
                           inExtensions, enums.name, FALSE, Plain),
                       inExtensions, enums.name, TRUE, Aliased),
                   Item(vkbGenerateMaxEnumToken(ctx, enums.name), "0x7FFFFFFF"))))

\* The items of the body written for a type of category enum.
EnumItems(ctx, enums) ==
    LET Base(item) == Item(item.name, IF item.alias # "" THEN item.alias ELSE item.value)
        Plain(other) ==
            IF other.enum.value # "" THEN other.enum.value
            ELSE vkbBuildCalculateExtensionEnumValue(other.enum, other.extnumber)
        Aliased(other) == other.enum.alias
    IN  With(FeatureExtendingEnums(ctx), LAMBDA inFeatures :
        With(ExtensionExtendingEnums(ctx), LAMBDA inExtensions :
            Append(ExtendItems(
                       ExtendItems(
                           ExtendItems(
                               ExtendItems([i \in 1..Len(enums.enums) |-> Base(enums.enums[i])],
                                           inFeatures, enums.name, FALSE, Plain),
                               inExtensions, enums.name, FALSE, Plain),
                           inFeatures, enums.name, TRUE, Aliased),
                       inExtensions, enums.name, TRUE, Aliased),
                   Item(vkbGenerateMaxEnumToken(ctx, enums.name), "0x7FFFFFFF"))))

-----------------------------------------------------------------------------
(* vkbBuildGenerateCode_C_Dependencies: one pass over the dependency list  *)
(* per group of categories.                                                *)

\* define types, then #define-style enums
DefineTypesPass(ctx, g, typeIndices) ==
    ForEach(LAMBDA acc, typeIndex :
                LET type == ctx.types[typeIndex]
                    defineValue == vkbBuildCleanDefineValue(type.verbatimValue)
                IN  IF ~HasOutputDefine(acc, type.name) /\ type.category = "define"
                       /\ Len(defineValue) > 0
                       THEN MarkDefineAsOutput(Emit(acc, Decl("define", type.name, defineValue, <<>>)),
                                               type.name)
                       ELSE acc,
            g, typeIndices)

DefineEnumsPass(ctx, g, enumIndices) ==
    ForEach(LAMBDA acc, enumIndex :
                LET enums == ctx.enums[enumIndex]
                    first == enums.enums[1]
                IN  IF ~HasOutputDefine(acc, first.name) /\ enums.type = ""
                       THEN MarkDefineAsOutput(
                                Emit(acc, Decl("define", first.name,
                                               IF first.alias # "" THEN first.alias ELSE first.value,
                                               <<>>)),
                                first.name)
                       ELSE acc,
            g, enumIndices)

BaseTypesPass(ctx, g, typeIndices) ==
    ForEach(LAMBDA acc, typeIndex :
                LET type == ctx.types[typeIndex]
                IN  IF ~HasOutputType(acc, type.name) /\ type.category = "basetype"
                       THEN MarkTypeAsOutput(Emit(acc, Decl("basetype", type.name, type.verbatimValue, <<>>)),
                                             type.name)
                       ELSE acc,
            g, typeIndices)

HandlesPass(ctx, g, typeIndices) ==
    ForEach(LAMBDA acc, typeIndex :
                LET type == ctx.types[typeIndex]
                IN  IF ~HasOutputType(acc, type.name) /\ type.category = "handle"
                       THEN MarkTypeAsOutput(
                                IF type.alias # ""
                                   THEN Emit(acc, Decl("alias", type.name, type.alias, <<>>))
                                   ELSE Emit(acc, Decl("handle", type.name, type.type, <<>>)),
                                type.name)
                       ELSE acc,
            g, typeIndices)

\* A bitmask type that is not an alias: the enum it links to through requires
\* or bitvalues is written first, if the registry has it, then the typedef of
\* the bitmask type itself.
BitmaskType(ctx, g, type) ==
    With(IF Len(type.requires) > 0 THEN vkbBuildFindEnumByName(ctx, type.requires)
         ELSE IF Len(type.bitvalues) > 0 THEN vkbBuildFindEnumByName(ctx, type.bitvalues)
         ELSE 0,
         LAMBDA iEnums :
            Emit(IF iEnums = 0 THEN g
                 ELSE IF BitmaskEnumOverflows(ctx, ctx.enums[iEnums], Len(type.bitvalues) # 0)
                     THEN [g EXCEPT !.overflow = TRUE]
                 ELSE With(BitmaskEnumItems(ctx, ctx.enums[iEnums], Len(type.bitvalues) # 0),
                           LAMBDA items :
                               [Emit(g, IF Len(type.bitvalues) # 0
                                           THEN Decl("flags64", ctx.enums[iEnums].name, type.type, items)
                                           ELSE Decl("enum", ctx.enums[iEnums].name, "", items))
                                   EXCEPT !.assertFailed =
                                       @ \/ \E i \in 1..Len(items) : items[i].text = "<undefined>"]),
                 Decl("bitmask", type.name, type.type, <<>>)))

\* A type of category enum that is not an alias: its body is written if the
\* registry has an <enums> of that name and of type "enum".
EnumType(ctx, g, type) ==
    With(vkbBuildFindEnumByName(ctx, type.name), LAMBDA iEnums :
        IF iEnums # 0 /\ ctx.enums[iEnums].type = "enum"
           THEN Emit(g, Decl("enum", ctx.enums[iEnums].name, "", EnumItems(ctx, ctx.enums[iEnums])))
           ELSE g)

BitmasksAndEnumsPass(ctx, g, typeIndices) ==
    ForEach(LAMBDA acc, typeIndex :
                LET type == ctx.types[typeIndex]
                IN  IF ~HasOutputType(acc, type.name) /\ type.category \in {"bitmask", "enum"}
                       THEN MarkTypeAsOutput(
                                IF type.alias # "" THEN Emit(acc, Decl("alias", type.name, type.alias, <<>>))
                                ELSE IF type.category = "bitmask" THEN BitmaskType(ctx, acc, type)
                                ELSE EnumType(ctx, acc, type),
                                type.name)
                       ELSE acc,
            g, typeIndices)

StructsAndFuncPointersPass(ctx, g, typeIndices) ==
    ForEach(LAMBDA acc, typeIndex :
                LET type == ctx.types[typeIndex]
                    iBaseType == vkbBuildFindTypeByName(ctx, type.alias)
                    base == ctx.types[iBaseType]
                IN  IF HasOutputType(acc, type.name) THEN acc
                    ELSE IF type.category \in {"struct", "union"}
                        THEN MarkTypeAsOutput(
                                 IF type.alias # ""
                                    THEN Emit(acc, Decl("alias", type.name, type.alias, <<>>))
                                    ELSE Emit(acc, Decl(type.category, type.name, "",
                                                        [i \in 1..Len(type.members) |->
                                                            Item("", type.members[i].type)])),
                                 type.name)
                    ELSE IF type.category = "funcpointer"
                        THEN MarkTypeAsOutput(
                                 IF type.alias # ""
                                    THEN IF iBaseType # 0
                                            THEN vkbBuildGenerateCode_C_Function(
                                                     acc, "funcpointer", base.returnType, type.name, base.params)
                                            ELSE acc
                                    ELSE vkbBuildGenerateCode_C_Function(
                                             acc, "funcpointer", type.returnType, type.name, type.params),
                                 type.name)
                    ELSE acc,
            g, typeIndices)

vkbBuildGenerateCode_C_Dependencies(ctx, g, dependencies) ==
    StructsAndFuncPointersPass(ctx,
        BitmasksAndEnumsPass(ctx,
            HandlesPass(ctx,
                BaseTypesPass(ctx,
                    DefineEnumsPass(ctx,
                        DefineTypesPass(ctx, g, dependencies.typeIndexes),
                        dependencies.enumIndexes),
                    dependencies.typeIndexes),
                dependencies.typeIndexes),
            dependencies.typeIndexes),
        dependencies.typeIndexes)

\* What vkbBuildGenerateCode_C_Feature and vkbBuildGenerateCode_C_Extension share:
\* "#define <name> 1", the includes, the #define-style enums of each require
\* block, the dependencies, the commands of each require block.
GenerateBlock(ctx, g, name, requires, dependencies) ==
    ForEach(LAMBDA acc, require : vkbBuildGenerateCode_C_RequireCommands(ctx, acc, require.commands),
            vkbBuildGenerateCode_C_Dependencies(
                ctx,
                ForEach(LAMBDA acc, require : vkbBuildGenerateCode_C_RequireDefineEnums(acc, require),
                        vkbBuildGenerateCode_C_DependencyIncludes(
                            ctx, Emit(g, Decl("define", name, "1", <<>>)), dependencies),
                        requires),
                dependencies),
            requires)

vkbBuildGenerateCode_C_Feature(ctx, g, iFeature) ==
    GenerateBlock(ctx, g, ctx.features[iFeature].name, ctx.features[iFeature].requires,
                  g.state.featureDependencies[iFeature])

vkbBuildGenerateCode_C_Extension(ctx, g, iExtension) ==
    GenerateBlock(ctx, g, ctx.extensions[iExtension].name, ctx.extensions[iExtension].requires,
                  g.state.extensionDependencies[iExtension])

-----------------------------------------------------------------------------
(* vkbBuildGenerateCode_C_Main after the dependency extraction: features,  *)
(* extensions without a platform, then one guarded group per platform.     *)

Indices(list) == [i \in 1..Len(list) |-> i]

\* How a step of the emitter ends: a runaway recursion crashes the tool, a
\* failed assert() aborts it unless asserts are compiled out; otherwise the
\* step's writes are kept and the emitter moves on.
Commit(g, nextPc) ==
    IF g.overflow
       THEN pc' = "crashed" /\ UNCHANGED <<codegenState, codeOut>>
    ELSE IF g.assertFailed /\ ~NDEBUG
       THEN pc' = "aborted" /\ UNCHANGED <<codegenState, codeOut>>
    ELSE /\ pc' = nextPc
         /\ codegenState' = g.state
         /\ codeOut' = g.codeOut

GenerateFeatures ==
    /\ pc = "features"
    /\ \E g \in {ForEach(LAMBDA acc, iFeature : vkbBuildGenerateCode_C_Feature(context, acc, iFeature),
                         Gen(codegenState, codeOut), Indices(context.features))} :
           Commit(g, "extensions")
    /\ UNCHANGED <<context, fragments, iPlatform, NDEBUG, toolVars, loaderVars>>

GenerateExtensions ==
    /\ pc = "extensions"
    /\ \E g \in {ForEach(LAMBDA acc, iExtension :
                             IF context.extensions[iExtension].platform = ""
                                THEN vkbBuildGenerateCode_C_Extension(context, acc, iExtension)
                                ELSE acc,
                         Gen(codegenState, codeOut), Indices(context.extensions))} :
           Commit(g, "platforms")
    /\ UNCHANGED <<context, fragments, iPlatform, NDEBUG, toolVars, loaderVars>>

\* The platform loop without the pass that gathers the includes behind the #ifdef.
PlatformGroup_NoIncludePass(ctx, g, platform) ==
    Emit(ForEach(LAMBDA acc, iExtension :
                     IF ctx.extensions[iExtension].platform = platform.name
                        THEN vkbBuildGenerateCode_C_Extension(ctx, acc, iExtension)
                        ELSE acc,
                 Emit(g, Decl("ifdef", platform.protect, "", <<>>)),
                 Indices(ctx.extensions)),
         Decl("endif", platform.protect, "", <<>>))

\* One iteration of the platform loop.
\* The platform loop that writes the extensions of a platform without the
\* #ifdef and #endif lines.
PlatformGroup_NoGuard(ctx, g, platform) ==
    ForEach(LAMBDA acc, iExtension :
                IF ctx.extensions[iExtension].platform = platform.name
                   THEN vkbBuildGenerateCode_C_Extension(ctx, acc, iExtension)
                   ELSE acc,
            ForEach(LAMBDA acc, iExtension :
                        IF ctx.extensions[iExtension].platform = platform.name
                           THEN vkbBuildGenerateCode_C_DependencyIncludes(
                                    ctx, acc, acc.state.extensionDependencies[iExtension])
                           ELSE acc,
                    g, Indices(ctx.extensions)),
            Indices(ctx.extensions))

PlatformGroup(ctx, g, platform) ==
    Emit(ForEach(LAMBDA acc, iExtension :
                     IF ctx.extensions[iExtension].platform = platform.name
                        THEN vkbBuildGenerateCode_C_Extension(ctx, acc, iExtension)
                        ELSE acc,
                 ForEach(LAMBDA acc, iExtension :
                             IF ctx.extensions[iExtension].platform = platform.name
                                THEN vkbBuildGenerateCode_C_DependencyIncludes(
                                         ctx, acc, acc.state.extensionDependencies[iExtension])
                                ELSE acc,
                         Emit(g, Decl("ifdef", platform.protect, "", <<>>)),
                         Indices(ctx.extensions)),
                 Indices(ctx.extensions)),
         Decl("endif", platform.protect, "", <<>>))

GeneratePlatform ==
    /\ pc = "platforms"
    /\ iPlatform <= Len(context.platforms)
    /\ \E g \in {IF context.platforms[iPlatform].name = "mir" THEN Gen(codegenState, codeOut)
                 ELSE PlatformGroup(context, Gen(codegenState, codeOut), context.platforms[iPlatform])} :
           Commit(g, "platforms")
    /\ iPlatform' = iPlatform + 1
    /\ UNCHANGED <<context, fragments, NDEBUG, toolVars, loaderVars>>

\* The platform loop is over: vkbBuildGenerateCode_C_Main returns VKB_SUCCESS.
FinishMain ==
    /\ pc = "platforms"
    /\ iPlatform > Len(context.platforms)
    /\ pc' = "generated"
    /\ UNCHANGED <<context, codegenState, codeOut, fragments, iPlatform, NDEBUG, toolVars, loaderVars>>

NextMain ==
    \/ ReorderExtensions
    \/ ResolveDependencies
    \/ GenerateFeatures
    \/ GenerateExtensions
    \/ GeneratePlatform
    \/ FinishMain

-----------------------------------------------------------------------------
(* Specification of the main emitter over small registries: a flags type   *)
(* with its bits enum, aliases of both, a struct and its alias, a handle,  *)
(* a define; one feature, one extension without a platform and one for     *)
(* win32.                                                                  *)

MainTypes(member) ==
    << WithVerbatimValue(BuildType("VK_API_VERSION", "define", "", "", "", "", "", <<>>, "", <<>>),
                         "// Deprecated\n#define VK_API_VERSION 1"),
       BuildType("windows.h", "include", "", "", "", "", "", <<>>, "", <<>>),
       WithVerbatimValue(BuildType("VkFlags", "basetype", "", "uint32_t", "", "", "", <<>>, "", <<>>),
                         "typedef uint32_t VkFlags;"),
       BuildType("VkDevice", "handle", "", "VK_DEFINE_HANDLE", "", "", "", <<>>, "", <<>>),
       BuildType("VkFooFlagBits", "enum", "", "", "", "", "", <<>>, "", <<>>),
       BuildType("VkFooFlags", "bitmask", "", "VkFlags", "VkFooFlagBits", "", "", <<>>, "", <<>>),
       BuildType("VkFooFlagBitsKHR", "enum", "VkFooFlagBits", "", "", "", "", <<>>, "", <<>>),
       BuildType("VkFooFlagsKHR", "bitmask", "VkFooFlags", "", "", "", "", <<>>, "", <<>>),
       BuildType("VkBar", "struct", "", "", "", "", "", <<Param(member, "")>>, "", <<>>),
       BuildType("VkBarKHR", "struct", "VkBar", "", "", "", "", <<>>, "", <<>>),
       BuildType("PFN_vkBarCallback", "funcpointer", "", "", "", "", "", <<>>, "void",
                 <<Param("VkBar", "")>>) >>

MainEnums ==
    << BuildEnums("VK_UUID_SIZE", "", <<BuildEnum("VK_UUID_SIZE", "", "16", "")>>),
       BuildEnums("VkFooFlagBits", "bitmask", <<BuildEnum("VK_FOO_A_BIT", "", "", "0")>>) >>

MainCommands ==
    << BuildCommand("vkCmd", "", "void", <<Param("VkDevice", "")>>),
       BuildCommand("vkCmdKHR", "vkCmd", "", <<>>) >>

MainPlatforms ==
    << BuildPlatform("mir", "VK_USE_PLATFORM_MIR_KHR"),
       BuildPlatform("win32", "VK_USE_PLATFORM_WIN32_KHR") >>

MainTypeNames ==
    {"VkDevice", "VkFooFlagBits", "VkFooFlags", "VkFooFlagBitsKHR", "VkFooFlagsKHR",
     "VkBar", "VkBarKHR", "PFN_vkBarCallback"}

\* The <type> children of the feature's require block: one or two of the types.
MainRequireTypes ==
    {<<a>> : a \in MainTypeNames}
    \cup {pair \in MainTypeNames \X MainTypeNames : pair[1] # pair[2]}

\* A #define-style enum that a require block lists with its value.
ValuedDefine(name, value) == BuildRequireEnum(name, "", value, "", "", "", "", "")
\* A reference to an enum of the registry.
EnumReference(name) == BuildRequireEnum(name, "", "", "", "", "", "", "")

MainBuilds ==
    {Build(MainPlatforms, <<[name |-> "KHR", author |-> "Khronos", contact |-> ""]>>,
           MainTypes(member), MainEnums, MainCommands,
           <<BuildFeature("VK_VERSION_1_0", "1.0",
                 <<BuildRequire(<<"VK_API_VERSION">> \o featureTypes,
                                <<EnumReference("VK_UUID_SIZE")>>, <<"vkCmd">>)>>)>>,
           <<BuildExtension("VK_KHR_foo", "1", "", "", "",
                 <<BuildRequire(fooTypes,
                                <<ValuedDefine("VK_KHR_FOO_SPEC_VERSION", "1")>>, <<"vkCmdKHR">>)>>),
             BuildExtension("VK_KHR_win32_foo", "2", "win32", "", "",
                 <<BuildRequire(<<"windows.h">> \o win32Types,
                                <<ValuedDefine(define, "2")>>, <<"vkCmdKHR">>)>>)>>) :
        member \in {"uint32_t", "VkFooFlags"},
        featureTypes \in MainRequireTypes,
        fooTypes \in {<<>>, <<"VkFooFlagsKHR">>, <<"VkBarKHR">>},
        win32Types \in {<<>>, <<"VkFooFlagBitsKHR">>},
        define \in {"VK_KHR_WIN32_FOO_SPEC_VERSION", "VK_KHR_FOO_SPEC_VERSION"}}

InitMain ==
    /\ context \in MainBuilds
    /\ codegenState = EmptyCodeGenState
    /\ codeOut = <<>>
    /\ fragments = <<>>
    /\ pc = "main"
    /\ iPlatform = 1
    /\ NDEBUG \in BOOLEAN
    /\ ToolAtRest
    /\ LoaderAtRest

SpecMain == InitMain /\ [][NextMain]_vars

-----------------------------------------------------------------------------
(* C2, C3: what the main fragment declares, and in which order.            *)

\* The kinds of record that declare a symbol: a #define name, a type name or a
\* command typedef name.
DeclaringKinds ==
    {"define", "basetype", "handle", "alias", "enum", "flags64", "bitmask",
     "struct", "union", "funcpointer", "command"}

Declares(decl, name) == decl.kind \in DeclaringKinds /\ decl.name = name

\* C2: across one run of the main emitter no symbol is declared twice: every
\* #define name, type name and command typedef name is written at most once,
\* the #define-style enums that require blocks list with a value included.
C2_NoDuplicateEmission ==
    \A i, j \in 1..Len(codeOut) :
        (i < j /\ codeOut[i].kind \in DeclaringKinds) => ~Declares(codeOut[j], codeOut[i].name)

\* C3: every type written as an alias (typedef X name;) has its target X
\* declared earlier in the main fragment.
C3_AliasTargetDeclaredEarlier ==
    \A i \in 1..Len(codeOut) :
        codeOut[i].kind = "alias" => \E j \in 1..(i - 1) : Declares(codeOut[j], codeOut[i].rhs)

-----------------------------------------------------------------------------
(* The main emitter on registries whose enum VkResult is extended by the    *)
(* require blocks of a feature and of an extension.                         *)

\* <type category="enum" name="VkResult"/>
EnumTypes == <<BuildType("VkResult", "enum", "", "", "", "", "", <<>>, "", <<>>)>>

\* <enums name="VkResult" type="enum"> with one item.
EnumEnums == <<BuildEnums("VkResult", "enum", <<BuildEnum("VK_SUCCESS", "", "0", "")>>)>>

\* The <enum extends="VkResult"> items a feature may list.
FeatureEnumItems ==
    {<<>>} \cup
    {<<BuildRequireEnum("VK_ERROR_A", "", "", "VkResult", "", extnumber, "3", dir)>> :
        extnumber \in {"", "7"}, dir \in {"", "-"}}

\* The <enum extends="VkResult"> items an extension may list.
ExtensionEnumItems ==
    {BuildRequireEnum(name, alias, value, "VkResult", "", extnumber, offset, dir) :
        name \in {"VK_ERROR_A", "VK_ERROR_B"}, alias \in {"", "VK_SUCCESS"},
        value \in {"", "5"}, extnumber \in {"", "42"}, offset \in {"0", "3"},
        dir \in {"", "-"}}

EnumBuilds ==
    {Build(MainPlatforms, <<[name |-> "KHR", author |-> "Khronos", contact |-> ""]>>,
           EnumTypes, EnumEnums, <<>>,
           <<BuildFeature("VK_VERSION_1_0", "1.0", <<BuildRequire(<<"VkResult">>, <<>>, <<>>)>>),
             BuildFeature("VK_VERSION_1_1", "1.1", <<BuildRequire(<<>>, featureItems, <<>>)>>)>>,
           <<BuildExtension("VK_KHR_foo", number, platform, "", "",
                 <<BuildRequire(<<>>, <<extensionItem>>, <<>>)>>)>>) :
        featureItems \in FeatureEnumItems, extensionItem \in ExtensionEnumItems,
        number \in {"2", "7"}, platform \in {"", "win32"}}

InitEnum ==
    /\ context \in EnumBuilds
    /\ codegenState = EmptyCodeGenState
    /\ codeOut = <<>>
    /\ fragments = <<>>
    /\ pc = "main"
    /\ iPlatform = 1
    /\ NDEBUG \in BOOLEAN
    /\ ToolAtRest
    /\ LoaderAtRest

SpecEnum == InitEnum /\ [][NextMain]_vars

\* The integer a numeral of these registries denotes.
NumberOf(text) ==
    CASE text = "0" -> 0 [] text = "2" -> 2 [] text = "3" -> 3
      [] text = "7" -> 7 [] text = "42" -> 42

\* The items the require blocks list, with the number of the extension that
\* lists them ("" for a feature), features first.
AdditionsOf(requires, number) ==
    Concat([i \in 1..Len(requires) |->
        [j \in 1..Len(requires[i].enums) |-> [item |-> requires[i].enums[j], number |-> number]]])
EnumAdditions ==
    Concat([i \in 1..Len(context.features) |-> AdditionsOf(context.features[i].requires, "")])
    \o Concat([i \in 1..Len(context.extensions) |->
                  AdditionsOf(context.extensions[i].requires, context.extensions[i].number)])

\* Addition k is an item added to VkResult with no value and no alias whose n
\* is defined: the name is new to the enum, and no earlier addition has added it.
AddedByFormula(k) ==
    LET a == EnumAdditions[k]
    IN  /\ a.item.extends = "VkResult" /\ a.item.value = "" /\ a.item.alias = ""
        /\ a.item.extnumber # "" \/ a.number # ""
        /\ \A i \in 1..Len(EnumEnums[1].enums) : EnumEnums[1].enums[i].name # a.item.name
        /\ \A h \in 1..(k - 1) :
               ~(/\ EnumAdditions[h].item.name = a.item.name
                 /\ EnumAdditions[h].item.extends = "VkResult"
                 /\ EnumAdditions[h].item.alias = "")

\* dir_sign * (1000000000 + (n - 1) * 1000 + offset)
FormulaValue(a) ==
    LET n == NumberOf(IF a.item.extnumber # "" THEN a.item.extnumber ELSE a.number)
        sign == IF a.item.dir = "-" THEN 0 - 1 ELSE 1
    IN  sign * (1000000000 + (n - 1) * 1000 + NumberOf(a.item.offset))

\* The lines of the body of VkResult in declaration d that carry a name.
LinesNamed(d, name) == {i \in 1..Len(codeOut[d].items) : codeOut[d].items[i].name = name}

\* C5: an item added to a regular enum by a require block with no value and no
\* alias is written once, with the integer
\* dir_sign * (1000000000 + (n - 1) * 1000 + offset), n being the extnumber of
\* the item when it has one and otherwise the number of the extension that adds
\* it; extnumber 42, offset 3, dir "-" gives -1000041003.
C5_ExtensionEnumValue ==
    \A d \in 1..Len(codeOut) :
        (codeOut[d].kind = "enum" /\ codeOut[d].name = "VkResult") =>
            \A k \in 1..Len(EnumAdditions) :
                AddedByFormula(k) =>
                    /\ Cardinality(LinesNamed(d, EnumAdditions[k].item.name)) = 1
                    /\ \A i \in LinesNamed(d, EnumAdditions[k].item.name) :
                           /\ codeOut[d].items[i].text = to_string(FormulaValue(EnumAdditions[k]))
                           /\ (/\ EnumAdditions[k].item.extnumber = "42"
                               /\ EnumAdditions[k].item.offset = "3"
                               /\ EnumAdditions[k].item.dir = "-")
                              => codeOut[d].items[i].text = "-1000041003"

\* The emitter has finished and VkResult carries an item numbered by the
\* extension that adds it (number 7, offset 3, downwards).
C5_Witness ==
    /\ pc = "generated"
    /\ \E d \in 1..Len(codeOut), k \in 1..Len(EnumAdditions) :
        /\ codeOut[d].kind = "enum" /\ codeOut[d].name = "VkResult"
        /\ AddedByFormula(k)
        /\ EnumAdditions[k].item.extnumber = "" /\ EnumAdditions[k].number = "7"
        /\ EnumAdditions[k].item.dir = "-" /\ EnumAdditions[k].item.offset = "3"
        /\ \E i \in 1..Len(codeOut[d].items) : codeOut[d].items[i].text = "-1000006003"

-----------------------------------------------------------------------------
(* The loader fragments.                                                   *)
(*                                                                         *)
(* A fragment is the sequence of its lines: an entry                       *)
(*     target name = (PFN_name)via "name");                                *)
(* with target "pAPI->" for a member of the API structure and "" for the   *)
(* global of that name, or an #ifdef / #endif of a platform.               *)

LoadEntry(target, name, via) == [kind |-> "load", target |-> target, name |-> name, via |-> via]
PlatformLine(kind, protect) == [kind |-> kind, target |-> "", name |-> protect, via |-> ""]

\* The mutation that looks at the parent of the type only.
IsTypeChildOf_DirectParentOnly(ctx, parentType, childType) ==
    IF parentType = childType THEN FALSE
    ELSE With(vkbBuildFindTypeByName(ctx, childType), LAMBDA iType :
            IF iType = 0 THEN FALSE
            ELSE ctx.types[iType].category = "handle" /\ ctx.types[iType].parent = parentType)

\* vkbBuildIsTypeChildOf: whether childType is a handle below parentType.  The
\* parent links of a registry form a forest; on a cycle of parent links the
\* C++ recursion does not return.
RECURSIVE vkbBuildIsTypeChildOf(_, _, _)
vkbBuildIsTypeChildOf(ctx, parentType, childType) ==
    IF parentType = childType THEN FALSE
    ELSE With(vkbBuildFindTypeByName(ctx, childType), LAMBDA iType :
            IF iType = 0 THEN FALSE
            ELSE IF ctx.types[iType].category # "handle" THEN FALSE
            ELSE IF ctx.types[iType].parent = parentType THEN TRUE
            ELSE vkbBuildIsTypeChildOf(ctx, parentType, ctx.types[iType].parent))

RECURSIVE vkbBuildIsDeviceLevelCommand(_, _)
vkbBuildIsDeviceLevelCommand(ctx, command) ==
    IF command.alias = ""
       THEN /\ Len(command.parameters) > 0
            /\ \/ command.parameters[1].type = "VkDevice"
               \/ vkbBuildIsTypeChildOf(ctx, "VkDevice", command.parameters[1].type)
       ELSE With(FirstIndex(ctx.commands, command.alias), LAMBDA iCommand :
                IF iCommand = 0 THEN FALSE
                ELSE vkbBuildIsDeviceLevelCommand(ctx, ctx.commands[iCommand]))

\* The mutation that accepts the type VkInstance itself only.
IsInstanceLevelCommand_ExactTypeOnly(ctx, command) ==
    command.alias = "" /\ Len(command.parameters) > 0 /\ command.parameters[1].type = "VkInstance"

RECURSIVE vkbBuildIsInstanceLevelCommand(_, _)
vkbBuildIsInstanceLevelCommand(ctx, command) ==
    IF command.alias = ""
       THEN /\ Len(command.parameters) > 0
            /\ \/ command.parameters[1].type = "VkInstance"
               \/ vkbBuildIsTypeChildOf(ctx, "VkInstance", command.parameters[1].type)
       ELSE With(FirstIndex(ctx.commands, command.alias), LAMBDA iCommand :
                IF iCommand = 0 THEN FALSE
                ELSE vkbBuildIsInstanceLevelCommand(ctx, ctx.commands[iCommand]))

\* The command names the require blocks of a feature or extension list.
RequiredCommands(requires) == Concat([i \in 1..Len(requires) |-> requires[i].commands])

\* A fragment under construction: its lines and the vector outputCommands.
Fragment(code, outputCommands) == [code |-> code, outputCommands |-> outputCommands]

\* The body of the innermost loop of the fragment generators, for one required
\* command.
LoadCommand(ctx, acc, name, Wanted(_), Entry(_)) ==
    With(vkbBuildFindCommandByName(ctx, name), LAMBDA iCommand :
        IF iCommand # 0 /\ ~vkbContains(acc.outputCommands, name) /\ Wanted(ctx.commands[iCommand])
           THEN Fragment(Append(acc.code, Entry(ctx.commands[iCommand].name)),
                         Append(acc.outputCommands, name))
           ELSE acc)

\* The loop over the features.
LoadFeatures(ctx, acc, Wanted(_), Entry(_)) ==
    ForEach(LAMBDA a, name : LoadCommand(ctx, a, name, Wanted, Entry),
            acc,
            Concat([i \in 1..Len(ctx.features) |-> RequiredCommands(ctx.features[i].requires)]))

\* The loop over the extensions of one platform ("" for those without one).
LoadExtensions(ctx, acc, platform, Wanted(_), Entry(_)) ==
    ForEach(LAMBDA a, name : LoadCommand(ctx, a, name, Wanted, Entry),
            acc,
            Concat([i \in 1..Len(ctx.extensions) |->
                       IF ctx.extensions[i].platform = platform
                          THEN RequiredCommands(ctx.extensions[i].requires)
                          ELSE <<>>]))

\* The loop over the platforms.
LoadPlatforms(ctx, acc, Wanted(_), Entry(_)) ==
    ForEach(LAMBDA a, platform :
                With(LoadExtensions(ctx,
                         Fragment(Append(a.code, PlatformLine("ifdef", platform.protect)),
                                  a.outputCommands),
                         platform.name, Wanted, Entry),
                     LAMBDA b : Fragment(Append(b.code, PlatformLine("endif", platform.protect)),
                                         b.outputCommands)),
            acc, ctx.platforms)

\* Features, then extensions without a platform, then the platforms.
LoadAll(ctx, acc, Wanted(_), Entry(_)) ==
    LoadPlatforms(ctx, LoadExtensions(ctx, LoadFeatures(ctx, acc, Wanted, Entry), "", Wanted, Entry),
                  Wanted, Entry)

\* The declaration PFN_name name; of a global, on a line of its own that is
\* indented when it is not the first of the fragment.
DeclEntry(name, indentation) == [kind |-> "decl", name |-> name, indentation |-> indentation]

\* The assignment target name = via name; between the global and the member of
\* the API structure.
AssignEntry(target, name, via) == [kind |-> "assign", target |-> target, name |-> name, via |-> via]

\* The mutation that walks the platforms before the extensions without one.
FuncPointersDeclGlobal_PlatformsFirst(ctx, indentation) ==
    LET Wanted(command) == TRUE
        Entry(name) == DeclEntry(name, indentation)
    IN  LoadExtensions(ctx,
            LoadPlatforms(ctx, LoadFeatures(ctx, Fragment(<<>>, <<>>), Wanted, Entry), Wanted, Entry),
            "", Wanted, Entry).code

vkbBuildGenerateCode_C_FuncPointersDeclGlobal(ctx, indentation) ==
    LET Wanted(command) == TRUE
        Entry(name) == DeclEntry(name, indentation)
    IN  LoadAll(ctx, Fragment(<<>>, <<>>), Wanted, Entry).code

vkbBuildGenerateCode_C_SetStructAPIFromGlobal(ctx) ==
    LET Wanted(command) == TRUE
        Entry(name) == AssignEntry("pAPI->", name, "")
    IN  LoadAll(ctx, Fragment(<<>>, <<>>), Wanted, Entry).code

vkbBuildGenerateCode_C_SetGlobalAPIFromStruct(ctx) ==
    LET Wanted(command) == TRUE
        Entry(name) == AssignEntry("", name, "pAPI->")
    IN  LoadAll(ctx, Fragment(<<>>, <<>>), Wanted, Entry).code

vkbBuildGenerateCode_C_LoadGlobalAPIFuncPointers(ctx) ==
    LET Wanted(command) == TRUE
        Entry(name) == LoadEntry("", name, "vkb_dlsym(g_vkbVulkanSO, ")
    IN  LoadAll(ctx, Fragment(<<>>, <<>>), Wanted, Entry).code

\* The mutation that does not set vkGetInstanceProcAddr aside.
LoadInstanceAPI_NothingSetAside(ctx) ==
    LET Wanted(command) == TRUE
        Entry(name) == LoadEntry("pAPI->", name, "vkGetInstanceProcAddr(instance, ")
    IN  LoadAll(ctx, Fragment(<<>>, <<>>), Wanted, Entry).code

vkbBuildGenerateCode_C_LoadInstanceAPI(ctx) ==
    LET Wanted(command) == TRUE
        Entry(name) == LoadEntry("pAPI->", name, "vkGetInstanceProcAddr(instance, ")
    IN  LoadAll(ctx, Fragment(<<>>, <<"vkGetInstanceProcAddr">>), Wanted, Entry).code

\* The mutation that stops after the features.
LoadDeviceAPI_FeaturesOnly(ctx) ==
    LET Wanted(command) == vkbBuildIsDeviceLevelCommand(ctx, command)
        Entry(name) == LoadEntry("pAPI->", name, "pAPI->vkGetDeviceProcAddr(device, ")
    IN  LoadFeatures(ctx, Fragment(<<>>, <<"vkGetDeviceProcAddr">>), Wanted, Entry).code

vkbBuildGenerateCode_C_LoadDeviceAPI(ctx) ==
    LET Wanted(command) == vkbBuildIsDeviceLevelCommand(ctx, command)
        Entry(name) == LoadEntry("pAPI->", name, "pAPI->vkGetDeviceProcAddr(device, ")
    IN  LoadAll(ctx, Fragment(<<>>, <<"vkGetDeviceProcAddr">>), Wanted, Entry).code

\* Only the loop over the features is there.
vkbBuildGenerateCode_C_LoadSafeGlobalAPI(ctx) ==
    LET Wanted(command) == ~vkbBuildIsInstanceLevelCommand(ctx, command)
        Entry(name) == LoadEntry("", name, "vkGetInstanceProcAddr(NULL, ")
    IN  LoadFeatures(ctx, Fragment(<<>>, <<"vkGetInstanceProcAddr">>), Wanted, Entry).code

\* vkbBuildGenerateLib_C replaces the tags of the template one after the
\* other, the main fragment first; these are the loader tags among them, in
\* that order.
LoaderTags ==
    <<"vulkan_funcpointers_decl_global", "vulkan_funcpointers_decl_global:4",
      "load_global_api_funcpointers", "set_struct_api_from_global",
      "set_global_api_from_struct", "load_instance_api", "load_device_api",
      "load_safe_global_api">>

\* The tag vkbBuildGenerateLib_C replaces next, "" when none is left.
NextTag == IF Len(fragments) < Len(LoaderTags) THEN LoaderTags[Len(fragments) + 1] ELSE ""

GenerateFuncPointersDeclGlobal ==
    /\ pc = "generated"
    /\ NextTag = "vulkan_funcpointers_decl_global"
    /\ fragments' = Append(fragments, [tag |-> "vulkan_funcpointers_decl_global", code |-> vkbBuildGenerateCode_C_FuncPointersDeclGlobal(context, 0)])
    /\ UNCHANGED <<context, codegenState, codeOut, pc, iPlatform, NDEBUG, toolVars, loaderVars>>

GenerateFuncPointersDeclGlobal4 ==
    /\ pc = "generated"
    /\ NextTag = "vulkan_funcpointers_decl_global:4"
    /\ fragments' = Append(fragments, [tag |-> "vulkan_funcpointers_decl_global:4", code |-> vkbBuildGenerateCode_C_FuncPointersDeclGlobal(context, 4)])
    /\ UNCHANGED <<context, codegenState, codeOut, pc, iPlatform, NDEBUG, toolVars, loaderVars>>

GenerateSetStructAPIFromGlobal ==
    /\ pc = "generated"
    /\ NextTag = "set_struct_api_from_global"
    /\ fragments' = Append(fragments, [tag |-> "set_struct_api_from_global", code |-> vkbBuildGenerateCode_C_SetStructAPIFromGlobal(context)])
    /\ UNCHANGED <<context, codegenState, codeOut, pc, iPlatform, NDEBUG, toolVars, loaderVars>>

GenerateSetGlobalAPIFromStruct ==
    /\ pc = "generated"
    /\ NextTag = "set_global_api_from_struct"
    /\ fragments' = Append(fragments, [tag |-> "set_global_api_from_struct", code |-> vkbBuildGenerateCode_C_SetGlobalAPIFromStruct(context)])
    /\ UNCHANGED <<context, codegenState, codeOut, pc, iPlatform, NDEBUG, toolVars, loaderVars>>

GenerateLoadGlobalAPIFuncPointers ==
    /\ pc = "generated"
    /\ NextTag = "load_global_api_funcpointers"
    /\ fragments' = Append(fragments, [tag |-> "load_global_api_funcpointers", code |-> vkbBuildGenerateCode_C_LoadGlobalAPIFuncPointers(context)])
    /\ UNCHANGED <<context, codegenState, codeOut, pc, iPlatform, NDEBUG, toolVars, loaderVars>>

GenerateLoadInstanceAPI ==
    /\ pc = "generated"
    /\ NextTag = "load_instance_api"
    /\ fragments' = Append(fragments, [tag |-> "load_instance_api", code |-> vkbBuildGenerateCode_C_LoadInstanceAPI(context)])
    /\ UNCHANGED <<context, codegenState, codeOut, pc, iPlatform, NDEBUG, toolVars, loaderVars>>

GenerateLoadDeviceAPI ==
    /\ pc = "generated"
    /\ NextTag = "load_device_api"
    /\ fragments' = Append(fragments, [tag |-> "load_device_api", code |-> vkbBuildGenerateCode_C_LoadDeviceAPI(context)])
    /\ UNCHANGED <<context, codegenState, codeOut, pc, iPlatform, NDEBUG, toolVars, loaderVars>>

GenerateLoadSafeGlobalAPI ==
    /\ pc = "generated"
    /\ NextTag = "load_safe_global_api"
    /\ fragments' = Append(fragments, [tag |-> "load_safe_global_api", code |-> vkbBuildGenerateCode_C_LoadSafeGlobalAPI(context)])
    /\ UNCHANGED <<context, codegenState, codeOut, pc, iPlatform, NDEBUG, toolVars, loaderVars>>

NextLib ==
    \/ ReorderExtensions
    \/ ResolveDependencies
    \/ GenerateFeatures
    \/ GenerateExtensions
    \/ GeneratePlatform
    \/ FinishMain
    \/ GenerateFuncPointersDeclGlobal
    \/ GenerateFuncPointersDeclGlobal4
    \/ GenerateLoadGlobalAPIFuncPointers
    \/ GenerateSetStructAPIFromGlobal
    \/ GenerateSetGlobalAPIFromStruct
    \/ GenerateLoadInstanceAPI
    \/ GenerateLoadDeviceAPI
    \/ GenerateLoadSafeGlobalAPI

-----------------------------------------------------------------------------
(* The generator on registries with a tree of handles and with commands    *)
(* at each level, required by a feature and by extensions.                  *)

LoaderHandle(name, parent) ==
    BuildType(name, "handle", "", "VK_DEFINE_HANDLE", "", "", parent, <<>>, "", <<>>)

LoaderTypes(deviceParent, queueParent) ==
    << WithVerbatimValue(BuildType("VkFlags", "basetype", "", "uint32_t", "", "", "", <<>>, "", <<>>),
                         "typedef uint32_t VkFlags;"),
       LoaderHandle("VkInstance", ""),
       LoaderHandle("VkPhysicalDevice", "VkInstance"),
       LoaderHandle("VkDevice", deviceParent),
       LoaderHandle("VkQueue", queueParent),
       LoaderHandle("VkCommandPool", "VkDevice"),
       LoaderHandle("VkCommandBuffer", "VkCommandPool") >>

LoaderCommands(aliasTarget) ==
    << BuildCommand("vkGetInstanceProcAddr", "", "PFN_vkVoidFunction", <<Param("VkInstance", "")>>),
       BuildCommand("vkGetDeviceProcAddr", "", "PFN_vkVoidFunction", <<Param("VkDevice", "")>>),
       BuildCommand("vkCreateInstance", "", "VkResult", <<Param("VkFlags", ""), Param("VkInstance", "")>>),
       BuildCommand("vkEnumerateInstanceVersion", "", "VkResult", <<>>),
       BuildCommand("vkQueueSubmit", "", "VkResult", <<Param("VkQueue", "")>>),
       BuildCommand("vkCmdDraw", "", "void", <<Param("VkCommandBuffer", ""), Param("VkFlags", "")>>),
       BuildCommand("vkCmdDrawKHR", "vkCmdDraw", "", <<>>),
       BuildCommand("vkCmdDraw2KHR", aliasTarget, "", <<>>),
       BuildCommand("vkGetGlobalEXT", "", "VkResult", <<Param("VkFlags", "")>>),
       BuildCommand("vkDisabledEXT", "", "void", <<Param("VkDevice", "")>>),
       BuildCommand("vkCreateMirSurfaceKHR", "", "VkResult", <<Param("VkInstance", "")>>) >>

\* The <extension> elements, with their supported attribute.
LoaderElements(fooCommands, win32Commands) ==
    << [supported |-> "vulkan",
        extension |-> BuildExtension("VK_KHR_foo", "1", "", "", "",
                          <<BuildRequire(<<>>, <<>>, fooCommands)>>)],
       [supported |-> "disabled",
        extension |-> BuildExtension("VK_EXT_off", "2", "", "", "",
                          <<BuildRequire(<<>>, <<>>, <<"vkDisabledEXT">>)>>)],
       [supported |-> "vulkan",
        extension |-> BuildExtension("VK_KHR_mir_surface", "3", "mir", "", "",
                          <<BuildRequire(<<>>, <<>>, <<"vkCreateMirSurfaceKHR">>)>>)],
       [supported |-> "vulkan",
        extension |-> BuildExtension("VK_KHR_win32_foo", "4", "win32", "", "",
                          <<BuildRequire(<<>>, <<>>, win32Commands)>>)] >>

\* vkbBuildParseExtensions on those elements.
LoaderExtensions(elements) ==
    ForEach(LAMBDA extensions, element :
                vkbBuildParseExtension(extensions, element.extension, element.supported),
            <<>>, elements)

LoaderBuilds ==
    {Build(MainPlatforms, <<[name |-> "KHR", author |-> "Khronos", contact |-> ""]>>,
           LoaderTypes(deviceParent, queueParent), <<>>, LoaderCommands(aliasTarget),
           <<BuildFeature("VK_VERSION_1_0", "1.0",
                 <<BuildRequire(<<>>, <<>>,
                       <<"vkGetInstanceProcAddr", "vkGetDeviceProcAddr", "vkCreateInstance">>
                           \o featureCommands)>>)>>,
           LoaderExtensions(LoaderElements(fooCommands, win32Commands))) :
        deviceParent \in {"VkPhysicalDevice", ""},
        queueParent \in {"VkDevice", "VkInstance"},
        aliasTarget \in {"vkCmdDrawKHR", "vkCreateInstance", "vkNotInRegistry"},
        featureCommands \in {<<>>, <<"vkQueueSubmit">>, <<"vkEnumerateInstanceVersion", "vkCmdDraw">>},
        fooCommands \in {<<>>, <<"vkCmdDrawKHR", "vkCmdDraw2KHR">>,
                         <<"vkGetGlobalEXT", "vkQueueSubmit">>, <<"vkNotInRegistry">>},
        win32Commands \in {<<>>, <<"vkCmdDraw">>, <<"vkGetGlobalEXT">>,
                           <<"vkQueueSubmit", "vkCmdDraw2KHR">>}}

InitLoader ==
    /\ context \in LoaderBuilds
    /\ codegenState = EmptyCodeGenState
    /\ codeOut = <<>>
    /\ fragments = <<>>
    /\ pc = "main"
    /\ iPlatform = 1
    /\ NDEBUG \in BOOLEAN
    /\ ToolAtRest
    /\ LoaderAtRest

SpecLoader == InitLoader /\ [][NextLib]_vars

-----------------------------------------------------------------------------
(* Properties of the loader fragments.                                     *)

\* Whether the fragment of a tag has been generated, and its lines.
Generated(tag) == \E i \in 1..Len(fragments) : fragments[i].tag = tag
CodeOf(tag) == fragments[CHOOSE i \in 1..Len(fragments) : fragments[i].tag = tag].code

\* The names the entries of a fragment load, and the entries of a name.
EntryNames(code) == {code[i].name : i \in {j \in 1..Len(code) : code[j].kind = "load"}}
EntriesOf(code, name) == {i \in 1..Len(code) : code[i].kind = "load" /\ code[i].name = name}

\* The command of the registry with a name.
CommandNames == {context.commands[i].name : i \in 1..Len(context.commands)}
CommandNamed(name) == context.commands[CHOOSE i \in 1..Len(context.commands) : context.commands[i].name = name]

\* The names required by the features and by the extensions of the registry.
RequiredBy(blocks) ==
    UNION {UNION {Range(blocks[i].requires[j].commands) : j \in 1..Len(blocks[i].requires)} :
              i \in 1..Len(blocks)}
RequiredByFeatures == RequiredBy(context.features)
RequiredByExtensions == RequiredBy(context.extensions)
RequiredAndKnown == (RequiredByFeatures \cup RequiredByExtensions) \cap CommandNames

\* The handle above a handle ("" when there is none), and the handles that
\* can be reached from a type by following parent links.
HandleParent(name) ==
    LET hits == {i \in 1..Len(context.types) :
                    context.types[i].name = name /\ context.types[i].category = "handle"}
    IN  IF hits = {} THEN "" ELSE context.types[CHOOSE i \in hits : TRUE].parent
RECURSIVE AncestorAt(_, _)
AncestorAt(name, k) == IF k = 0 THEN name ELSE HandleParent(AncestorAt(name, k - 1))
Reaches(name, target) == \E k \in 1..Len(context.types) : AncestorAt(name, k) = target

\* The command at the end of the chain of aliases of a command, "" when the
\* chain leaves the registry.
RECURSIVE AliasEnd(_, _)
AliasEnd(name, k) ==
    IF name \notin CommandNames THEN ""
    ELSE IF CommandNamed(name).alias = "" \/ k = 0 THEN name
    ELSE AliasEnd(CommandNamed(name).alias, k - 1)
FirstParameterBelow(name, top) ==
    LET end == AliasEnd(name, Len(context.commands))
    IN  /\ end # ""
        /\ Len(CommandNamed(end).parameters) > 0
        /\ \/ CommandNamed(end).parameters[1].type = top
           \/ Reaches(CommandNamed(end).parameters[1].type, top)

\* C6: a command is device-level exactly when the type of its first parameter
\* is VkDevice or a handle that reaches VkDevice through parent links, and
\* instance-level exactly when it is VkInstance or reaches VkInstance; with no
\* parameter or a first parameter that is no handle it is neither; an aliased
\* command is classified as the command at the end of its chain of aliases.
C6_CommandClassification ==
    \A name \in CommandNames :
        AliasEnd(name, Len(context.commands)) # "" =>
            /\ vkbBuildIsDeviceLevelCommand(context, CommandNamed(name))
                   <=> FirstParameterBelow(name, "VkDevice")
            /\ vkbBuildIsInstanceLevelCommand(context, CommandNamed(name))
                   <=> FirstParameterBelow(name, "VkInstance")

\* The device table has been generated with an entry for vkCmdDraw2KHR, an
\* alias of an alias of a command on VkCommandBuffer, two handles below VkDevice,
\* and without one for vkCreateInstance.
C6_Witness ==
    /\ Generated("load_device_api")
    /\ CommandNamed("vkCmdDraw2KHR").alias = "vkCmdDrawKHR"
    /\ "vkCmdDraw2KHR" \in EntryNames(CodeOf("load_device_api"))
    /\ "vkCreateInstance" \notin EntryNames(CodeOf("load_device_api"))

\* C7: when the parent chain of VkDevice reaches VkInstance, every device-level
\* command is instance-level too, and no device-level command is in the
\* safe-global table.
C7_DeviceLevelIsInstanceLevel ==
    Reaches("VkDevice", "VkInstance") =>
        /\ \A name \in CommandNames :
               vkbBuildIsDeviceLevelCommand(context, CommandNamed(name))
                   => vkbBuildIsInstanceLevelCommand(context, CommandNamed(name))
        /\ Generated("load_safe_global_api") =>
               \A name \in EntryNames(CodeOf("load_safe_global_api")) :
                   ~vkbBuildIsDeviceLevelCommand(context, CommandNamed(name))

\* The safe-global table has been generated for a registry whose VkDevice is
\* below VkInstance and whose feature requires the device-level vkQueueSubmit;
\* the table loads vkCreateInstance.
C7_Witness ==
    /\ Generated("load_safe_global_api")
    /\ Reaches("VkDevice", "VkInstance")
    /\ "vkQueueSubmit" \in RequiredByFeatures
    /\ vkbBuildIsDeviceLevelCommand(context, CommandNamed("vkQueueSubmit"))
    /\ "vkCreateInstance" \in EntryNames(CodeOf("load_safe_global_api"))

\* The required commands of the registry that are device-level.
RequiredDeviceLevel ==
    {name \in RequiredAndKnown : vkbBuildIsDeviceLevelCommand(context, CommandNamed(name))}

\* Every entry of the device table loads through the device's own getter.
DeviceEntriesUseDeviceGetter ==
    \A i \in 1..Len(CodeOf("load_device_api")) :
        CodeOf("load_device_api")[i].kind = "load" =>
            /\ CodeOf("load_device_api")[i].target = "pAPI->"
            /\ CodeOf("load_device_api")[i].via = "pAPI->vkGetDeviceProcAddr(device, "

\* C8: the load_device_api fragment has an entry for every required command that
\* is device-level and for no other command; each entry loads the command
\* through pAPI->vkGetDeviceProcAddr(device, name).
C8_DeviceTable ==
    Generated("load_device_api") =>
        /\ EntryNames(CodeOf("load_device_api")) = RequiredDeviceLevel
        /\ DeviceEntriesUseDeviceGetter

\* C8 as amended: the same, except that vkGetDeviceProcAddr never has an entry.
C8_DeviceTableExceptGetter ==
    Generated("load_device_api") =>
        /\ EntryNames(CodeOf("load_device_api")) = RequiredDeviceLevel \ {"vkGetDeviceProcAddr"}
        /\ DeviceEntriesUseDeviceGetter

\* The device table has been generated for a registry that requires
\* vkGetDeviceProcAddr and whose win32 extension adds a device-level command:
\* the table has an entry inside the #ifdef of win32.
C8_Witness ==
    /\ Generated("load_device_api")
    /\ "vkGetDeviceProcAddr" \in RequiredDeviceLevel
    /\ \E i, j \in 1..Len(CodeOf("load_device_api")) :
        /\ i < j
        /\ CodeOf("load_device_api")[i].kind = "ifdef"
        /\ CodeOf("load_device_api")[i].name = "VK_USE_PLATFORM_WIN32_KHR"
        /\ CodeOf("load_device_api")[j].kind = "load"

\* C9: the load_safe_global_api fragment has an entry for every command required
\* by a feature or an extension that is not instance-level, and for no
\* instance-level command.
C9_SafeGlobalTable ==
    Generated("load_safe_global_api") =>
        EntryNames(CodeOf("load_safe_global_api")) =
            {name \in RequiredAndKnown :
                ~vkbBuildIsInstanceLevelCommand(context, CommandNamed(name))}

\* C10: the load_instance_api fragment has exactly one entry for every required
\* command of the registry except vkGetInstanceProcAddr, which has none; the
\* global dlsym table has exactly one for every such command, without exception;
\* commands required only by extensions that were dropped have none.
C10_InstanceAndGlobalTables ==
    /\ Generated("load_instance_api") =>
        /\ EntryNames(CodeOf("load_instance_api")) = RequiredAndKnown \ {"vkGetInstanceProcAddr"}
        /\ \A name \in EntryNames(CodeOf("load_instance_api")) :
               Cardinality(EntriesOf(CodeOf("load_instance_api"), name)) = 1
        /\ EntryNames(CodeOf("load_instance_api")) \cap {"vkDisabledEXT", "vkCreateMirSurfaceKHR"} = {}
    /\ Generated("load_global_api_funcpointers") =>
        /\ EntryNames(CodeOf("load_global_api_funcpointers")) = RequiredAndKnown
        /\ \A name \in EntryNames(CodeOf("load_global_api_funcpointers")) :
               Cardinality(EntriesOf(CodeOf("load_global_api_funcpointers"), name)) = 1
        /\ EntryNames(CodeOf("load_global_api_funcpointers"))
               \cap {"vkDisabledEXT", "vkCreateMirSurfaceKHR"} = {}

\* Both tables have been generated for a registry that requires
\* vkGetInstanceProcAddr, a command that is not in the registry, and
\* vkQueueSubmit in the feature and again in an extension.
C10_Witness ==
    /\ Generated("load_instance_api")
    /\ "vkGetInstanceProcAddr" \in EntryNames(CodeOf("load_global_api_funcpointers"))
    /\ "vkNotInRegistry" \in RequiredByExtensions
    /\ "vkQueueSubmit" \in RequiredByFeatures \cap RequiredByExtensions
    /\ "vkQueueSubmit" \in EntryNames(CodeOf("load_instance_api"))

-----------------------------------------------------------------------------
(* The walk order of the command tables.                                   *)

\* The names a feature or extension requires, each with the section of the
\* fragment it is walked in: "" outside every #ifdef, else the macro of the
\* platform.
WalkedIn(block, section) ==
    [i \in 1..Len(RequiredCommands(block.requires)) |->
        [name |-> RequiredCommands(block.requires)[i], section |-> section]]

\* Features in registry order, then the extensions without a platform, then,
\* platform by platform, the extensions of the platform.
WalkOrder ==
    Concat([i \in 1..Len(context.features) |-> WalkedIn(context.features[i], "")])
    \o Concat([i \in 1..Len(context.extensions) |->
                  IF context.extensions[i].platform = ""
                     THEN WalkedIn(context.extensions[i], "") ELSE <<>>])
    \o Concat([p \in 1..Len(context.platforms) |->
                  Concat([i \in 1..Len(context.extensions) |->
                             IF context.extensions[i].platform = context.platforms[p].name
                                THEN WalkedIn(context.extensions[i], context.platforms[p].protect)
                                ELSE <<>>])])

\* The first position of each name of a walk order.
FirstWalked(walk) ==
    [name \in {walk[i].name : i \in 1..Len(walk)} |->
        MinOf({i \in 1..Len(walk) : walk[i].name = name})]

\* The entries of a fragment (its lines other than #ifdef and #endif), and the
\* section line i of a fragment stands in.
EntryLines(code) == {i \in 1..Len(code) : code[i].kind \notin {"ifdef", "endif"}}
SectionAt(code, i) ==
    LET opened == {j \in 1..(i - 1) : code[j].kind = "ifdef"}
        closed == {j \in 1..(i - 1) : code[j].kind = "endif"}
        lastOpened == CHOOSE j \in opened : \A k \in opened : k <= j
    IN  IF opened = {} \/ \E k \in closed : k > lastOpened THEN "" ELSE code[lastOpened].name

\* The fragments that list every required command of the registry.
UnfilteredTags ==
    {"vulkan_funcpointers_decl_global", "vulkan_funcpointers_decl_global:4",
     "load_global_api_funcpointers", "set_struct_api_from_global", "set_global_api_from_struct"}

-----------------------------------------------------------------------------
(* One run of the tool: main, vkbBuildGenerateLib_C and the generators of  *)
(* the banner.  The registry that main parsed is in context; the files are *)
(* the template and the output of the previous run.                        *)

VKB_SUCCESS == 0
VKB_INVALID_ARGS == -2
VKB_FAILED_TO_OPEN_FILE == -5

VKB_BUILD_TEMPLATE_PATH == "../../source/vkbind_template.h"

\* The path main passes to vkbBuildGenerateLib_C, which is also the path that
\* vkbBuildGenerateCode_C_Revision reads.
OutputFilePath == "../../vkbind.h"

File(text) == [exists |-> TRUE, text |-> text]
NoFile == [exists |-> FALSE, text |-> ""]

\* vkbBuildGetVulkanVersion: the number of the last feature, then the text that
\* follows the name in the cleaned VK_HEADER_VERSION define.
vkbBuildGetVulkanVersion(ctx) ==
    With({i \in 1..Len(ctx.types) : ctx.types[i].category = "define"
                                        /\ ctx.types[i].name = "VK_HEADER_VERSION"},
         LAMBDA defines :
        IF defines = {} THEN ctx.features[Len(ctx.features)].number
        ELSE With(vkbBuildCleanDefineValue(ctx.types[MinOf(defines)].verbatimValue),
                  LAMBDA defineValue :
                 ctx.features[Len(ctx.features)].number \o "."
                     \o vkbTrim(SubSeq(defineValue,
                                       StrFind(defineValue, "VK_HEADER_VERSION", 1)
                                           + Len("VK_HEADER_VERSION"),
                                       Len(defineValue)))))

\* What a generator hands back: its result and the code it appended; crashed
\* when the process did not survive it.
Outcome(result, code) == [result |-> result, code |-> code, crashed |-> FALSE]
Crashed == [result |-> VKB_SUCCESS, code |-> "", crashed |-> TRUE]

\* The revision once the banner of the previous output is found at versionBeg
\* (the position after "vkbind - v").  The four strstr() results are used
\* without a check: when one of them is NULL the behaviour is undefined, and
\* the process dies or goes on with some number.
RevisionAfterBanner(text, versionBeg, currentVulkanVersion) ==
    With(StrFind(text, ".", versionBeg), LAMBDA dot1 :
    With(IF dot1 = 0 THEN 0 ELSE StrFind(text, ".", dot1 + 1), LAMBDA dot2 :
    With(IF dot2 = 0 THEN 0 ELSE StrFind(text, ".", dot2 + 1), LAMBDA dot3 :
    With(IF dot3 = 0 THEN 0 ELSE StrFind(text, " ", dot3 + 1), LAMBDA space :
        IF space = 0
           THEN {Crashed, Outcome(VKB_SUCCESS, "0"), Outcome(VKB_SUCCESS, "1")}
        ELSE IF currentVulkanVersion = SubSeq(text, versionBeg, dot1 - 1) \o "."
                                           \o SubSeq(text, dot1 + 1, dot2 - 1) \o "."
                                           \o SubSeq(text, dot2 + 1, dot3 - 1)
           THEN {Outcome(VKB_SUCCESS,
                           to_string(atoi(SubSeq(text, dot3 + 1, space - 1)) + 1))}
        ELSE {Outcome(VKB_SUCCESS, "0")}))))

\* The mutation that keeps counting when the Vulkan version has changed.
Revision_NeverReset(ctx, previous) ==
    IF ~previous.exists \/ StrFind(previous.text, "vkbind - v", 1) = 0
       THEN {Outcome(VKB_SUCCESS, "0")}
       ELSE With(StrFind(previous.text, "vkbind - v", 1) + Len("vkbind - v"), LAMBDA versionBeg :
                RevisionAfterBanner(previous.text, versionBeg,
                    SubSeq(previous.text, versionBeg,
                           StrFind(previous.text, ".",
                               StrFind(previous.text, ".",
                                   StrFind(previous.text, ".", versionBeg) + 1) + 1) - 1)))

\* vkbBuildGenerateCode_C_Revision; previous is the file at "../../vkbind.h".
vkbBuildGenerateCode_C_Revision(ctx, previous) ==
    IF ~previous.exists THEN {Outcome(VKB_SUCCESS, "0")}
    ELSE IF StrFind(previous.text, "vkbind - v", 1) = 0 THEN {Outcome(VKB_SUCCESS, "0")}
    ELSE RevisionAfterBanner(previous.text,
                             StrFind(previous.text, "vkbind - v", 1) + Len("vkbind - v"),
                             vkbBuildGetVulkanVersion(ctx))

\* vkbBuildGenerateCode_C_SafeGlobalAPIDocs: per feature a heading and the
\* commands that are not instance-level, each once per feature.
SafeGlobalAPIDocsFeature(ctx, codeOutSoFar, feature) ==
    ForEach(LAMBDA acc, name :
                With(vkbBuildFindCommandByName(ctx, name), LAMBDA iCommand :
                    IF iCommand # 0 /\ ~vkbContains(acc.outputCommands, name)
                           /\ ~vkbBuildIsInstanceLevelCommand(ctx, ctx.commands[iCommand])
                       THEN Fragment(acc.code
                                         \o (IF acc.outputCommands = <<>> THEN "    " ELSE "\n    ")
                                         \o ctx.commands[iCommand].name,
                                     Append(acc.outputCommands, name))
                       ELSE acc),
            IF feature.number = "1.0"
               THEN Fragment(codeOutSoFar \o "\nVulkan " \o feature.number \o "\n"
                                 \o "    vkGetInstanceProcAddr",
                             <<"vkGetInstanceProcAddr">>)
               ELSE Fragment(codeOutSoFar \o "\nVulkan " \o feature.number \o "\n", <<>>),
            RequiredCommands(feature.requires)).code

vkbBuildGenerateCode_C_SafeGlobalAPIDocs(ctx) ==
    ForEach(LAMBDA text, feature : SafeGlobalAPIDocsFeature(ctx, text, feature), "", ctx.features)

\* The text of the lines that the model keeps as records: one line of C per
\* record, its fields in the order in which the generator writes them.
Spaces(n) == SubSeq("        ", 1, n)

EntryText(line) ==
    IF line.kind = "ifdef" THEN "\n#ifdef " \o line.name
    ELSE IF line.kind = "endif" THEN "\n#endif /*" \o line.name \o "*/"
    ELSE IF line.kind = "decl"
       THEN "\n" \o Spaces(line.indentation) \o "PFN_" \o line.name \o " " \o line.name \o ";"
    ELSE IF line.kind = "assign"
       THEN "\n    " \o line.target \o line.name \o " = " \o line.via \o line.name \o ";"
    ELSE "\n    " \o line.target \o line.name \o " = (PFN_" \o line.name \o ")"
             \o line.via \o "\"" \o line.name \o "\");"

TableText(code) == ForEach(LAMBDA text, line : text \o EntryText(line), "", code)

DeclText(decl) ==
    decl.kind \o " " \o decl.name \o " " \o decl.rhs
        \o ForEach(LAMBDA text, item : text \o " " \o item.name \o "=" \o item.text, "", decl.items)
        \o "\n"

MainText(main) == ForEach(LAMBDA text, decl : text \o DeclText(decl), "", main)

\* The tags of vkbBuildGenerateLib_C, in the order of its loop.
Tags ==
    << "/*<<vulkan_main>>*/",
       "/*<<vulkan_funcpointers_decl_global>>*/",
       "/*<<vulkan_funcpointers_decl_global:4>>*/",
       "/*<<load_global_api_funcpointers>>*/",
       "/*<<set_struct_api_from_global>>*/",
       "/*<<set_global_api_from_struct>>*/",
       "/*<<load_instance_api>>*/",
       "/*<<load_device_api>>*/",
       "/*<<load_safe_global_api>>*/",
       "<<safe_global_api_docs>>",
       "<<vulkan_version>>",
       "<<revision>>",
       "<<date>>" >>

\* vkbBuildGenerateCode_C: the outcomes of generating the code of one tag.  main
\* is what vkbBuildGenerateCode_C_Main wrote, previous the output file as it is
\* on disk, date what strftime() gives for the current time.
vkbBuildGenerateCode_C(ctx, tag, main, previous, date) ==
    IF tag = "/*<<vulkan_main>>*/" THEN {Outcome(VKB_SUCCESS, MainText(main))}
    ELSE IF tag = "/*<<vulkan_funcpointers_decl_global>>*/"
       THEN {Outcome(VKB_SUCCESS, TableText(vkbBuildGenerateCode_C_FuncPointersDeclGlobal(ctx, 0)))}
    ELSE IF tag = "/*<<vulkan_funcpointers_decl_global:4>>*/"
       THEN {Outcome(VKB_SUCCESS, TableText(vkbBuildGenerateCode_C_FuncPointersDeclGlobal(ctx, 4)))}
    ELSE IF tag = "/*<<load_global_api_funcpointers>>*/"
       THEN {Outcome(VKB_SUCCESS, TableText(vkbBuildGenerateCode_C_LoadGlobalAPIFuncPointers(ctx)))}
    ELSE IF tag = "/*<<set_struct_api_from_global>>*/"
       THEN {Outcome(VKB_SUCCESS, TableText(vkbBuildGenerateCode_C_SetStructAPIFromGlobal(ctx)))}
    ELSE IF tag = "/*<<set_global_api_from_struct>>*/"
       THEN {Outcome(VKB_SUCCESS, TableText(vkbBuildGenerateCode_C_SetGlobalAPIFromStruct(ctx)))}
    ELSE IF tag = "/*<<load_instance_api>>*/"
       THEN {Outcome(VKB_SUCCESS, TableText(vkbBuildGenerateCode_C_LoadInstanceAPI(ctx)))}
    ELSE IF tag = "/*<<load_device_api>>*/"
       THEN {Outcome(VKB_SUCCESS, TableText(vkbBuildGenerateCode_C_LoadDeviceAPI(ctx)))}
    ELSE IF tag = "/*<<load_safe_global_api>>*/"
       THEN {Outcome(VKB_SUCCESS, TableText(vkbBuildGenerateCode_C_LoadSafeGlobalAPI(ctx)))}
    ELSE IF tag = "<<safe_global_api_docs>>"
       THEN {Outcome(VKB_SUCCESS, vkbBuildGenerateCode_C_SafeGlobalAPIDocs(ctx))}
    ELSE IF tag = "<<vulkan_version>>" THEN {Outcome(VKB_SUCCESS, vkbBuildGetVulkanVersion(ctx))}
    ELSE IF tag = "<<revision>>" THEN vkbBuildGenerateCode_C_Revision(ctx, previous)
    ELSE IF tag = "<<date>>" THEN {Outcome(VKB_SUCCESS, date)}
    ELSE {Outcome(VKB_INVALID_ARGS, "")}
-----------------------------------------------------------------------------
(* The steps of a run.  The main fragment is written by the steps of       *)
(* vkbBuildGenerateCode_C_Main above (pc from "main" to "generated"); the  *)
(* tag loop then replaces one tag per step.                                *)

MaxRevision == 8

Dates == {"2024-05-01", "2024-05-02"}

\* vkbBuildGenerateLib_C up to the tag loop: the template is read into outputStr.
ReadTemplate ==
    /\ pc = "parsed"
    /\ IF files[VKB_BUILD_TEMPLATE_PATH].exists
          THEN /\ outputStr' = files[VKB_BUILD_TEMPLATE_PATH].text
               /\ pc' = "main"
               /\ UNCHANGED <<exitCode, failures>>
          ELSE /\ exitCode' = VKB_FAILED_TO_OPEN_FILE
               /\ failures' = failures \cup {"template"}
               /\ pc' = "exited"
               /\ UNCHANGED outputStr
    /\ UNCHANGED <<context, codegenState, codeOut, fragments, iPlatform, NDEBUG, files, iTag, loaderVars>>

\* One iteration of the tag loop: the code of the tag is generated and replaces
\* every occurrence of the tag in outputStr.
ReplaceTag ==
    /\ pc = "generated"
    /\ iTag <= Len(Tags)
    /\ \E generated \in UNION {vkbBuildGenerateCode_C(context, Tags[iTag], codeOut,
                                                        files[OutputFilePath], date) :
                                     date \in Dates} :
           IF generated.crashed
              THEN /\ pc' = "crashed"
                   /\ failures' = failures \cup {"generator"}
                   /\ UNCHANGED <<outputStr, iTag, exitCode>>
           ELSE IF generated.result # VKB_SUCCESS
              THEN /\ pc' = "exited"
                   /\ exitCode' = generated.result
                   /\ failures' = failures \cup {"generator"}
                   /\ UNCHANGED <<outputStr, iTag>>
           ELSE /\ outputStr' = vkbReplaceAll(outputStr, Tags[iTag], generated.code)
                /\ iTag' = iTag + 1
                /\ UNCHANGED <<pc, exitCode, failures>>
    /\ UNCHANGED <<context, codegenState, codeOut, fragments, iPlatform, NDEBUG, files, loaderVars>>

\* The end of vkbBuildGenerateLib_C and of main: the output is written, the
\* result of vkbOpenAndWriteTextFile is dropped, VKB_SUCCESS is returned and
\* main returns 0.  The file system lets the write succeed, refuses to open the
\* file, or opens (and truncates) it and fails to write.
WriteOutput ==
    /\ pc = "generated"
    /\ iTag > Len(Tags)
    /\ \E outcome \in {"written", "not opened", "not written"} :
           /\ files' = [files EXCEPT ![OutputFilePath] =
                            IF outcome = "written" THEN File(outputStr)
                            ELSE IF outcome = "not opened" THEN @
                            ELSE File("")]
           /\ failures' = IF outcome = "written" THEN failures ELSE failures \cup {"output"}
    /\ exitCode' = VKB_SUCCESS
    /\ pc' = "exited"
    /\ UNCHANGED <<context, codegenState, codeOut, fragments, iPlatform, NDEBUG, outputStr, iTag, loaderVars>>

-----------------------------------------------------------------------------
(* Runs of the tool, one after the other, on registries whose last feature *)
(* and VK_HEADER_VERSION vary; the output of a run is the previous output  *)
(* of the next one.                                                        *)

ToolTypes(header) ==
    LoaderTypes("VkPhysicalDevice", "VkDevice")
        \o << WithVerbatimValue(
                  BuildType("VK_HEADER_VERSION", "define", "", "", "", "", "", <<>>, "", <<>>),
                  "// Version of this file\n#define VK_HEADER_VERSION  " \o header) >>

ToolFeatures(number) ==
    << BuildFeature("VK_VERSION_1_0", "1.0",
           <<BuildRequire(<<>>, <<>>, <<"vkGetInstanceProcAddr", "vkCreateInstance">>)>>),
       BuildFeature("VK_VERSION_LAST", number,
           <<BuildRequire(<<>>, <<>>, <<"vkQueueSubmit">>)>>) >>

ToolBuild(number, header) ==
    Build(MainPlatforms, <<[name |-> "KHR", author |-> "Khronos", contact |-> ""]>>,
          ToolTypes(header), <<>>, LoaderCommands("vkCmdDrawKHR"), ToolFeatures(number),
          LoaderExtensions(LoaderElements(<<"vkQueueSubmit">>, <<"vkCmdDraw">>)))

ToolNumbers == {"1.2", "1.3"}
ToolHeaders == {"250", "251"}
ToolBuilds == {ToolBuild(number, header) : number \in ToolNumbers, header \in ToolHeaders}

\* The template: its banner, the tags and three tokens that are no tags; it
\* names the version a second time at its end.
TemplatePieces ==
    << "/*\nvkbind - v", "<<vulkan_version>>", ".", "<<revision>>", " - ", "<<date>>", "\n*/\n",
       "/*<<vk_video>>*/", "\n", "/*<<vulkan_main>>*/", "\n",
       "/*<<vulkan_struct_initializers>>*/", "\n",
       "/*<<vulkan_funcpointers_decl_global:extern>>*/", "\ntypedef struct\n{\n    ",
       "/*<<vulkan_funcpointers_decl_global:4>>*/", "\n} VkbAPI;\n/*\n",
       "<<safe_global_api_docs>>", "\n*/\n",
       "/*<<vulkan_funcpointers_decl_global>>*/", "\nstatic VkResult vkbLoadVulkanSymbols(VkbAPI* pAPI)\n{\n    ",
       "/*<<load_global_api_funcpointers>>*/", "\n    ",
       "/*<<load_safe_global_api>>*/", "\n}\n    ",
       "/*<<set_struct_api_from_global>>*/", "\n    ",
       "/*<<load_instance_api>>*/", "\n    ",
       "/*<<load_device_api>>*/", "\n    ",
       "/*<<set_global_api_from_struct>>*/", "\n",
       "/* Vulkan ", "<<vulkan_version>>", " */\n" >>

TextOf(pieces) == ForEach(LAMBDA text, piece : text \o piece, "", pieces)

Templates == {TemplatePieces}

\* What "../../vkbind.h" can hold before the first run: the output of an earlier
\* run, a file of another origin, or a file whose banner was cut short.
PreviousOutputs ==
    { NoFile,
      File("/*\nvkbind - v1.3.250.7 - 2024-04-30\n*/\n"),
      File("/* not written by this tool */\n"),
      File("/*\nvkbind - v1.3") }

\* A new process: main parses the registry it has downloaded.  Between two runs
\* the registry and the previous output may have changed.
RunAgain ==
    /\ pc \in {"exited", "crashed", "aborted"}
    /\ StrFind(files[OutputFilePath].text, "." \o to_string(MaxRevision) \o " - ", 1) = 0
    /\ context' \in ToolBuilds
    /\ codegenState' = EmptyCodeGenState
    /\ codeOut' = <<>>
    /\ iPlatform' = 1
    /\ \E removed \in BOOLEAN :
           files' = [files EXCEPT ![OutputFilePath] = IF removed THEN NoFile ELSE @]
    /\ outputStr' = ""
    /\ iTag' = 1
    /\ exitCode' = 0
    /\ failures' = {}
    /\ pc' = "parsed"
    /\ UNCHANGED <<fragments, NDEBUG, loaderVars>>

InitTool ==
    /\ context \in ToolBuilds
    /\ codegenState = EmptyCodeGenState
    /\ codeOut = <<>>
    /\ fragments = <<>>
    /\ pc = "parsed"
    /\ iPlatform = 1
    /\ NDEBUG = FALSE
    /\ \E pieces \in Templates :
       \E template \in {NoFile, File(TextOf(pieces))}, previous \in PreviousOutputs :
           files = [path \in {VKB_BUILD_TEMPLATE_PATH, OutputFilePath} |->
                       IF path = VKB_BUILD_TEMPLATE_PATH THEN template ELSE previous]
    /\ outputStr = ""
    /\ iTag = 1
    /\ exitCode = 0
    /\ failures = {}
    /\ LoaderAtRest

NextTool ==
    \/ ReadTemplate
    \/ ReorderExtensions
    \/ ResolveDependencies
    \/ GenerateFeatures
    \/ GenerateExtensions
    \/ GeneratePlatform
    \/ FinishMain
    \/ ReplaceTag
    \/ WriteOutput
    \/ RunAgain

SpecTool == InitTool /\ [][NextTool]_vars

-----------------------------------------------------------------------------
(* Properties of the runs.                                                 *)

ToolVersions == {number \o "." \o header : number \in ToolNumbers, header \in ToolHeaders}

\* The Vulkan version of a registry of the family.
ToolVersion(ctx) ==
    CHOOSE version \in ToolVersions :
        \E number \in ToolNumbers, header \in ToolHeaders :
            /\ version = number \o "." \o header
            /\ ctx.types = ToolTypes(header)
            /\ ctx.features = ToolFeatures(number)

\* The banner of the file carries this version and this revision: the first
\* "vkbind - v" of the file is followed by version.revision and " - ".
Carries(file, version, revision) ==
    /\ file.exists
    /\ \A banner \in {"vkbind - v" \o version \o "." \o ToString(revision) \o " - "} :
       \A at \in {StrFind(file.text, "vkbind - v", 1)} :
           /\ at # 0
           /\ at + Len(banner) - 1 <= Len(file.text)
           /\ SubSeq(file.text, at, at + Len(banner) - 1) = banner

\* C12: over any sequence of runs, a run that writes its output writes the
\* banner of the current Vulkan version with revision 0 when there is no
\* previous output or the previous output has no banner at all, and otherwise,
\* when the previous banner carries version v and revision r, with r + 1 if v
\* is the current version and with 0 if it is not.
C12_RevisionRule ==
    [][(pc = "generated" /\ iTag > Len(Tags) /\ pc' = "exited" /\ "output" \notin failures')
          => \A current \in {ToolVersion(context)} :
             \A previous \in {files[OutputFilePath]} :
             \A written \in {files'[OutputFilePath]} :
                 /\ (~previous.exists \/ StrFind(previous.text, "vkbind - v", 1) = 0)
                        => Carries(written, current, 0)
                 /\ \A version \in ToolVersions, revision \in 0..MaxRevision :
                        Carries(previous, version, revision)
                            => Carries(written, current,
                                       IF version = current THEN revision + 1 ELSE 0)]_vars

\* The banner v1.3.250.7 has been followed by v1.3.250.8.
C12_Witness ==
    /\ pc = "exited"
    /\ exitCode = 0
    /\ Carries(files[OutputFilePath], "1.3.250", 8)

\* C15: when the process has returned from main, every failure of the run (the
\* template could not be read, a generator returned an error, the output file
\* could not be opened or written) has made the exit code non-zero, and an
\* exit code of 0 means that the output file holds the complete output.
C15_FailuresReachMain ==
    pc = "exited" =>
        /\ failures # {} => exitCode # 0
        /\ exitCode = 0 => /\ iTag > Len(Tags)
                           /\ files[OutputFilePath] = File(outputStr)

\* The template with the tags that the loop has gone past replaced by their
\* code, and every other piece as it is in the template.
Substituted(pieces, tagsDone, CodeOf_(_)) ==
    TextOf([i \in 1..Len(pieces) |->
               IF \E k \in 1..tagsDone : Tags[k] = pieces[i] THEN CodeOf_(pieces[i]) ELSE pieces[i]])

\* The tokens of the template that are no tags.
OtherTokens ==
    {"/*<<vk_video>>*/", "/*<<vulkan_struct_initializers>>*/",
     "/*<<vulkan_funcpointers_decl_global:extern>>*/"}

\* C16: at every point of the tag loop, outputStr is the template in which
\* every occurrence of each tag already handled stands replaced by the code
\* generated for that tag, and in which everything else, the tokens that are
\* no tags included, is unchanged.
C16_TagsReplacedOthersIntact ==
    (pc = "generated" /\ files[VKB_BUILD_TEMPLATE_PATH].exists) =>
        /\ \E pieces \in Templates :
               /\ files[VKB_BUILD_TEMPLATE_PATH].text = TextOf(pieces)
               /\ \E date \in Dates :
                  \E revision \in vkbBuildGenerateCode_C(context, "<<revision>>", codeOut,
                                                         files[OutputFilePath], date) :
                      outputStr = Substituted(pieces, iTag - 1, LAMBDA tag :
                          IF tag = "<<revision>>" THEN revision.code
                          ELSE (CHOOSE generated \in
                                    vkbBuildGenerateCode_C(context, tag, codeOut,
                                                           files[OutputFilePath], date) : TRUE).code)
        /\ \A token \in OtherTokens : StrFind(outputStr, token, 1) # 0

\* The loop is over; the template names the version twice: both places
\* hold the version and the tokens that are no tags are still there.
C16_Witness ==
    /\ pc = "generated"
    /\ iTag > Len(Tags)
    /\ StrFind(outputStr, "vkbind - v1.3.250.", 1) # 0
    /\ StrFind(outputStr, "/* Vulkan 1.3.250 */", 1) # 0
    /\ StrFind(outputStr, "/*<<vulkan_funcpointers_decl_global:extern>>*/", 1) # 0
    /\ StrFind(outputStr, "<<vulkan_version>>", 1) = 0

-----------------------------------------------------------------------------
(* The loader that the template emits (source/vkbind_template.h), in the   *)
(* default build (VKBIND_NO_GLOBAL_API not defined), as a program calls    *)
(* it.  A function pointer is "NULL", "loaded" (an address the Vulkan      *)
(* library returned) or "garbage" (what uninitialised memory happens to    *)
(* hold, if not NULL).  The members of a VkbAPI object are kept as three:  *)
(* vkGetInstanceProcAddr, vkGetDeviceProcAddr and all the other commands.  *)

MaxInitCount == 3
MaxOpened == 3

VkbAPI(vkGetInstanceProcAddr, vkGetDeviceProcAddr, commands) ==
    [vkGetInstanceProcAddr |-> vkGetInstanceProcAddr,
     vkGetDeviceProcAddr |-> vkGetDeviceProcAddr,
     commands |-> commands]

\* A VkbAPI object that the program has set to zero.
ZeroedAPI == VkbAPI("NULL", "NULL", "NULL")

\* A VkbAPI object in which the program has stored the two addresses it got
\* from the Vulkan library by its own means.
PrefilledAPI == VkbAPI("loaded", "loaded", "NULL")

\* What a VkbAPI object can hold when it was declared and not initialised.
UninitialisedAPIs == {VkbAPI(p, p, "garbage") : p \in {"NULL", "garbage"}}

\* The statics of the loader and the dynamic linker, as one value.
Statics(initCount, vulkanSO, linker, globals) ==
    [g_vkbInitCount |-> initCount, g_vkbVulkanSO |-> vulkanSO, dl |-> linker, globalAPI |-> globals]

\* What a function of the loader leaves behind: the statics, the object behind
\* pAPI and the VkResult; "crashed" when it called through a pointer that is
\* not an address of the library.
Returned(statics, object, result) == [statics |-> statics, object |-> object, result |-> result]

\* vkbLoadVulkanSO: the first name that vkb_dlopen() finds is kept; the
\* library is installed or it is not.
vkbLoadVulkanSO(statics) ==
    { [result |-> "VK_SUCCESS",
       statics |-> [statics EXCEPT !.g_vkbVulkanSO = "handle", !.dl.opened = @ + 1]],
      [result |-> "VK_ERROR_INCOMPATIBLE_DRIVER", statics |-> statics] }

\* vkbLoadVulkanSymbols: load_global_api_funcpointers assigns the result of
\* vkb_dlsym() to the global of each command (the library exports
\* vkGetInstanceProcAddr or it does not), the member of pAPI is then tested,
\* and load_safe_global_api calls the global vkGetInstanceProcAddr.
vkbLoadVulkanSymbols(statics, object) ==
    { With([statics EXCEPT !.globalAPI = VkbAPI(symbol, symbol, "loaded")], LAMBDA loaded :
          IF object.vkGetInstanceProcAddr = "NULL"
             THEN Returned(loaded, object, "VK_ERROR_INITIALIZATION_FAILED")
          ELSE IF symbol # "loaded" THEN Returned(loaded, object, "crashed")
          ELSE Returned(loaded, object, "VK_SUCCESS")) :
        symbol \in {"loaded", "NULL"} }

\* vkbInitFromGlobalAPI: set_struct_api_from_global copies every global into pAPI.
vkbInitFromGlobalAPI(statics, object) == Returned(statics, statics.globalAPI, "VK_SUCCESS")

\* vkbBindAPI with pAPI not NULL: set_global_api_from_struct copies every
\* member of pAPI into its global.
BindAPI(statics, object) ==
    Returned([statics EXCEPT !.globalAPI = object], object, "VK_SUCCESS")

\* The end of vkbInit: g_vkbInitCount += 1; return VK_SUCCESS.
InitSucceeded(returned) ==
    [returned EXCEPT !.statics.g_vkbInitCount = @ + 1, !.result = "VK_SUCCESS"]

\* vkbInit after the library is there, pAPI not NULL.
InitWithAPI(statics, object) ==
    IF statics.g_vkbInitCount = 0
       THEN { IF symbols.result # "VK_SUCCESS" THEN symbols
              ELSE InitSucceeded(BindAPI(symbols.statics, symbols.object)) :
                  symbols \in vkbLoadVulkanSymbols(statics, object) }
       ELSE { InitSucceeded(vkbInitFromGlobalAPI(statics, object)) }

\* vkbInit with pAPI not NULL.
vkbInitAPI(statics, object) ==
    IF statics.g_vkbInitCount = 0
       THEN UNION { IF so.result # "VK_SUCCESS" THEN {Returned(so.statics, object, so.result)}
                    ELSE InitWithAPI(so.statics, object) :
                        so \in vkbLoadVulkanSO(statics) }
       ELSE InitWithAPI(statics, object)

\* vkbInit after the library is there, pAPI NULL: on the first initialisation
\* vkbInit is called on a local VkbAPI that is not initialised, and the counter
\* that this call has incremented is incremented once more.
InitWithNull(statics, object) ==
    IF statics.g_vkbInitCount = 0
       THEN UNION { { IF inner.result # "VK_SUCCESS"
                         THEN Returned(inner.statics, object, inner.result)
                         ELSE InitSucceeded(Returned(inner.statics, object, inner.result)) :
                          inner \in vkbInitAPI(statics, local) } :
                      local \in UninitialisedAPIs }
       ELSE { InitSucceeded(Returned(statics, object, "VK_SUCCESS")) }

\* vkbInit with pAPI NULL; object is what the program's own VkbAPI holds.
vkbInitNull(statics, object) ==
    IF statics.g_vkbInitCount = 0
       THEN UNION { IF so.result # "VK_SUCCESS" THEN {Returned(so.statics, object, so.result)}
                    ELSE InitWithNull(so.statics, object) :
                        so \in vkbLoadVulkanSO(statics) }
       ELSE InitWithNull(statics, object)

\* The statics as the variables hold them.
TheStatics == Statics(g_vkbInitCount, g_vkbVulkanSO, dl, globalAPI)

\* A call has returned: the statics, the program's object and the record of
\* the call are updated.
Return(fn, pAPI, returned) ==
    /\ g_vkbInitCount' = returned.statics.g_vkbInitCount
    /\ g_vkbVulkanSO' = returned.statics.g_vkbVulkanSO
    /\ dl' = returned.statics.dl
    /\ globalAPI' = returned.statics.globalAPI
    /\ api' = returned.object
    /\ lastCall' = [fn |-> fn, pAPI |-> pAPI, result |-> returned.result]

\* VkResult vkbInit(VkbAPI* pAPI)
vkbInit ==
    /\ pc = "linked"
    /\ lastCall.result # "crashed"
    /\ g_vkbInitCount < MaxInitCount
    /\ dl.opened < MaxOpened
    /\ \E pAPI \in {"NULL", "&api"} :
       \E returned \in (IF pAPI = "NULL" THEN vkbInitNull(TheStatics, api)
                        ELSE vkbInitAPI(TheStatics, api)) :
           /\ Return("vkbInit", pAPI, returned)
           /\ unmatched' = IF returned.result = "VK_SUCCESS" THEN unmatched + 1 ELSE unmatched
    /\ UNCHANGED <<context, codegenState, codeOut, fragments, pc, iPlatform, NDEBUG, toolVars>>

\* void vkbUninit(void)
vkbUninit ==
    /\ pc = "linked"
    /\ lastCall.result # "crashed"
    /\ IF g_vkbInitCount = 0
          THEN UNCHANGED <<g_vkbInitCount, g_vkbVulkanSO, dl>>
       ELSE IF g_vkbInitCount - 1 = 0
          THEN /\ g_vkbInitCount' = 0
               /\ dl' = [dl EXCEPT !.closed = @ + 1]
               /\ g_vkbVulkanSO' = "NULL"
          ELSE /\ g_vkbInitCount' = g_vkbInitCount - 1
               /\ UNCHANGED <<g_vkbVulkanSO, dl>>
    /\ unmatched' = IF unmatched > 0 THEN unmatched - 1 ELSE 0
    /\ lastCall' = [fn |-> "vkbUninit", pAPI |-> "NULL", result |-> "void"]
    /\ UNCHANGED <<globalAPI, api>>
    /\ UNCHANGED <<context, codegenState, codeOut, fragments, pc, iPlatform, NDEBUG, toolVars>>

\* vkbInitInstanceAPI with pAPI not NULL: vkGetInstanceProcAddr is taken from the
\* global when pAPI has none, and load_instance_api calls the global
\* vkGetInstanceProcAddr for every other command.
InitInstanceAPI(statics, object) ==
    With([object EXCEPT !.vkGetInstanceProcAddr =
                            IF @ = "NULL" THEN statics.globalAPI.vkGetInstanceProcAddr ELSE @],
         LAMBDA seeded :
        IF seeded.vkGetInstanceProcAddr = "NULL"
           THEN Returned(statics, seeded, "VK_ERROR_INITIALIZATION_FAILED")
        ELSE IF statics.globalAPI.vkGetInstanceProcAddr # "loaded"
           THEN Returned(statics, seeded, "crashed")
        ELSE Returned(statics,
                      [seeded EXCEPT !.vkGetDeviceProcAddr = "loaded", !.commands = "loaded"],
                      "VK_SUCCESS"))

\* VkResult vkbInitInstanceAPI(VkInstance instance, VkbAPI* pAPI)
vkbInitInstanceAPI ==
    /\ pc = "linked"
    /\ lastCall.result # "crashed"
    /\ \E pAPI \in {"NULL", "&api"} :
           Return("vkbInitInstanceAPI", pAPI,
                  IF g_vkbInitCount = 0 \/ pAPI = "NULL"
                     THEN Returned(TheStatics, api, "VK_ERROR_INITIALIZATION_FAILED")
                     ELSE InitInstanceAPI(TheStatics, api))
    /\ UNCHANGED unmatched
    /\ UNCHANGED <<context, codegenState, codeOut, fragments, pc, iPlatform, NDEBUG, toolVars>>

\* vkbInitDeviceAPI with pAPI not NULL: vkGetDeviceProcAddr is taken from the
\* global when pAPI has none, is called for its own device-level address, and
\* load_device_api calls it for the device-level commands.
InitDeviceAPI(statics, object) ==
    With([object EXCEPT !.vkGetDeviceProcAddr =
                            IF @ = "NULL" THEN statics.globalAPI.vkGetDeviceProcAddr ELSE @],
         LAMBDA seeded :
        IF seeded.vkGetDeviceProcAddr = "NULL"
           THEN Returned(statics, seeded, "VK_ERROR_INITIALIZATION_FAILED")
        ELSE IF seeded.vkGetDeviceProcAddr # "loaded"
           THEN Returned(statics, seeded, "crashed")
        ELSE Returned(statics, [seeded EXCEPT !.commands = "loaded"], "VK_SUCCESS"))

\* VkResult vkbInitDeviceAPI(VkDevice device, VkbAPI* pAPI)
vkbInitDeviceAPI ==
    /\ pc = "linked"
    /\ lastCall.result # "crashed"
    /\ \E pAPI \in {"NULL", "&api"} :
           Return("vkbInitDeviceAPI", pAPI,
                  IF g_vkbInitCount = 0 \/ pAPI = "NULL"
                     THEN Returned(TheStatics, api, "VK_ERROR_INITIALIZATION_FAILED")
                     ELSE InitDeviceAPI(TheStatics, api))
    /\ UNCHANGED unmatched
    /\ UNCHANGED <<context, codegenState, codeOut, fragments, pc, iPlatform, NDEBUG, toolVars>>

\* VkResult vkbBindAPI(const VkbAPI* pAPI)
vkbBindAPI ==
    /\ pc = "linked"
    /\ lastCall.result # "crashed"
    /\ \E pAPI \in {"NULL", "&api"} :
           Return("vkbBindAPI", pAPI,
                  IF pAPI = "NULL"
                     THEN Returned(TheStatics, api, "VK_ERROR_INITIALIZATION_FAILED")
                     ELSE BindAPI(TheStatics, api))
    /\ UNCHANGED unmatched
    /\ UNCHANGED <<context, codegenState, codeOut, fragments, pc, iPlatform, NDEBUG, toolVars>>

\* The program that includes the header: its statics are zero, its VkbAPI
\* object is zeroed, filled in by the program, or not initialised.
InitRuntime ==
    /\ context = EmptyBuild
    /\ codegenState = EmptyCodeGenState
    /\ codeOut = <<>>
    /\ fragments = <<>>
    /\ pc = "linked"
    /\ iPlatform = 1
    /\ NDEBUG = FALSE
    /\ ToolAtRest
    /\ g_vkbInitCount = 0
    /\ g_vkbVulkanSO = "NULL"
    /\ dl = [opened |-> 0, closed |-> 0]
    /\ globalAPI = ZeroedAPI
    /\ api \in {ZeroedAPI, PrefilledAPI} \cup UninitialisedAPIs
    /\ unmatched = 0
    /\ lastCall = [fn |-> "", pAPI |-> "NULL", result |-> "void"]

NextRuntime ==
    \/ vkbInit
    \/ vkbUninit
    \/ vkbInitInstanceAPI
    \/ vkbInitDeviceAPI
    \/ vkbBindAPI

SpecRuntime == InitRuntime /\ [][NextRuntime]_vars

\* C13: whenever every successful vkbInit has been matched by a vkbUninit, the
\* loader is uninitialised again: g_vkbInitCount is 0, the Vulkan library was
\* closed as many times as it was opened, and g_vkbVulkanSO is NULL.
C13_MatchedCallsUninitialise ==
    (unmatched = 0 /\ lastCall.result # "crashed") =>
        /\ g_vkbInitCount = 0
        /\ dl.opened = dl.closed
        /\ g_vkbVulkanSO = "NULL"


\* C17: a call of vkbInitInstanceAPI or vkbInitDeviceAPI made while no
\* successful vkbInit is still unmatched by a vkbUninit, or made with pAPI
\* NULL, returns VK_ERROR_INITIALIZATION_FAILED and leaves the program's VkbAPI
\* object as it was.
C17_UninitialisedOrNullFails ==
    [][(/\ lastCall'.fn \in {"vkbInitInstanceAPI", "vkbInitDeviceAPI"}
        /\ unmatched = 0 \/ lastCall'.pAPI = "NULL")
           => /\ lastCall'.result = "VK_ERROR_INITIALIZATION_FAILED"
              /\ api' = api]_vars

-----------------------------------------------------------------------------
(* The main emitter on registries with one flags type, 32-bit (linked to   *)
(* its bits enum by requires) or 64-bit (linked by bitvalues), whose bits  *)
(* enum has one item given by bitpos and gets a second one from an         *)
(* extension.                                                              *)

\* <type category="bitmask"> of the width, and the <type category="enum"> of its bits.
FlagsTypes(width) ==
    IF width = 32
       THEN <<BuildType("VkFooFlags", "bitmask", "", "VkFlags", "VkFooFlagBits", "", "", <<>>, "", <<>>)>>
       ELSE <<BuildType("VkFooFlags2", "bitmask", "", "VkFlags64", "", "VkFooFlagBits2", "", <<>>, "", <<>>)>>

FlagsName(width) == IF width = 32 THEN "VkFooFlags" ELSE "VkFooFlags2"
FlagBitsName(width) == IF width = 32 THEN "VkFooFlagBits" ELSE "VkFooFlagBits2"

\* <enums type="bitmask"> with <enum bitpos="b" name="VK_FOO_A_BIT"/>.
FlagsEnums(width, bitpos) ==
    <<BuildEnums(FlagBitsName(width), "bitmask",
                 <<BuildEnum("VK_FOO_A_BIT", "", "", to_string(bitpos))>>)>>

\* The registry: the feature requires the flags type, the extension adds
\* <enum extends=... bitpos="c" name="VK_FOO_B_BIT_KHR"/>.
FlagsBuild(width, bitpos, added) ==
    Build(MainPlatforms, <<[name |-> "KHR", author |-> "Khronos", contact |-> ""]>>,
          FlagsTypes(width), FlagsEnums(width, bitpos), <<>>,
          <<BuildFeature("VK_VERSION_1_0", "1.0",
                <<BuildRequire(<<FlagsName(width)>>, <<>>, <<>>)>>)>>,
          <<BuildExtension("VK_KHR_foo", "2", "", "", "",
                <<BuildRequire(<<>>,
                               <<BuildRequireEnum("VK_FOO_B_BIT_KHR", "", "", FlagBitsName(width),
                                                  to_string(added), "", "", "")>>,
                               <<>>)>>)>>)

FlagsBuilds ==
    {FlagsBuild(width, bitpos, (bitpos + 1) % width) :
        width \in {32, 64}, bitpos \in 0..63} \ 
    {FlagsBuild(32, bitpos, (bitpos + 1) % 32) : bitpos \in 32..63}

InitFlags ==
    /\ context \in FlagsBuilds
    /\ codegenState = EmptyCodeGenState
    /\ codeOut = <<>>
    /\ fragments = <<>>
    /\ pc = "main"
    /\ iPlatform = 1
    /\ NDEBUG \in BOOLEAN
    /\ ToolAtRest
    /\ LoaderAtRest

SpecFlags == InitFlags /\ [][NextMain]_vars

\* 2^k for k < 16, and a number below 2^16 as four hexadecimal digits.
RECURSIVE TwoToThe(_)
TwoToThe(k) == IF k = 0 THEN 1 ELSE 2 * TwoToThe(k - 1)
Hex4(n) ==
    CharAt(HexDigits, ((n \div 4096) % 16) + 1) \o CharAt(HexDigits, ((n \div 256) % 16) + 1)
    \o CharAt(HexDigits, ((n \div 16) % 16) + 1) \o CharAt(HexDigits, (n % 16) + 1)

\* 2^b for b < 32 as eight hexadecimal digits; 0 for any other b.
Hex8OfBit(b) ==
    Hex4(IF b \in 16..31 THEN TwoToThe(b - 16) ELSE 0)
    \o Hex4(IF b \in 0..15 THEN TwoToThe(b) ELSE 0)

\* 0xHHHHHHHH, the 32-bit literal of 2^b.
Literal32(b) == "0x" \o Hex8OfBit(b)

\* (T)(((T)0xHHHHHHHH << 32) | (0xLLLLLLLL)), the two halves of 2^b.
CastAndShift(T, b) ==
    "(" \o T \o ")(((" \o T \o ")0x" \o Hex8OfBit(b - 32) \o " << 32) | (0x" \o Hex8OfBit(b) \o "))"

\* The bitpos the registry gives to the item of that name.
BitposOf(name) ==
    IF name = "VK_FOO_A_BIT" THEN atoi(context.enums[1].enums[1].bitpos)
    ELSE atoi(context.extensions[1].requires[1].enums[1].bitpos)

\* The items by bitpos in the bodies written for the bits enum.
BitItems ==
    {<<d, i>> \in (1..Len(codeOut)) \X (1..2) :
        /\ codeOut[d].kind \in {"enum", "flags64"}
        /\ i <= Len(codeOut[d].items)
        /\ codeOut[d].items[i].name \in {"VK_FOO_A_BIT", "VK_FOO_B_BIT_KHR"}}

\* C14 as claimed: the width of the flags type decides the form of the
\* literal of an item with bitpos b: in a 32-bit enum it is 2^b as 0x and eight
\* hexadecimal digits, in a 64-bit flags type T it is
\* (T)(((T)0xHHHHHHHH << 32) | (0xLLLLLLLL)) for every b in 0..63.
C14_FormByWidth ==
    \A p \in BitItems :
        With(codeOut[p[1]], LAMBDA decl :
            decl.items[p[2]].text =
                IF decl.kind = "enum" THEN Literal32(BitposOf(decl.items[p[2]].name))
                ELSE CastAndShift(decl.name, BitposOf(decl.items[p[2]].name)))

\* C14 amended: the bit position decides the form: for b in 0..31 the literal
\* is 2^b as 0x and eight hexadecimal digits, in a 32-bit enum and in a 64-bit
\* flags type alike; for b in 32..63, in a 64-bit flags type T, it is
\* (T)(((T)0xHHHHHHHH << 32) | (0xLLLLLLLL)), and bitpos 32 gives
\* (T)(((T)0x00000001 << 32) | (0x00000000)).
C14_FormByBitpos ==
    \A p \in BitItems :
        With(codeOut[p[1]], LAMBDA decl :
            With(BitposOf(decl.items[p[2]].name), LAMBDA b :
                /\ decl.items[p[2]].text =
                       IF b < 32 THEN Literal32(b) ELSE CastAndShift(decl.name, b)
                /\ b = 32 => decl.items[p[2]].text =
                       "(" \o decl.name \o ")(((" \o decl.name
                           \o ")0x00000001 << 32) | (0x00000000))"))

\* The emitter has finished on a 64-bit flags type whose items are at bitpos
\* 31 and 32.
C14_Witness ==
    /\ pc = "generated"
    /\ \E d \in 1..Len(codeOut) :
        /\ codeOut[d].kind = "flags64"
        /\ Len(codeOut[d].items) = 2
        /\ codeOut[d].items[1].text = "0x80000000"
        /\ codeOut[d].items[2].text =
               "(VkFooFlagBits2)(((VkFooFlagBits2)0x00000001 << 32) | (0x00000000))"


-----------------------------------------------------------------------------
\* C18: the resolver returns for every registry, also one whose types
\* reference each other in a cycle (the walk never runs away), and each list
\* it builds names a type at most once.
C18_ResolutionTerminates ==
    /\ pc # "crashed"
    /\ \A k \in 1..Len(AllDependencies) :
           \A p, q \in 1..Len(AllDependencies[k].typeIndexes) :
               p # q => AllDependencies[k].typeIndexes[p] # AllDependencies[k].typeIndexes[q]


-----------------------------------------------------------------------------
\* C19: once all extensions are parsed, every extension whose deprecatedby
\* names an extension of the list sits after that extension, also when
\* several extensions parsed earlier are deprecated by the same one.
C19_DeprecatedAfterSuccessor ==
    pc = "main" =>
        \A d \in 1..Len(context.extensions) :
            With(ExtensionIndex(context.extensions[d].deprecatedby), LAMBDA x :
                (context.extensions[d].deprecatedby # "" /\ x # 0) => x < d)


\* C20: the promotion reorder is idempotent: applied to the list it has
\* produced, vkbBuildReorderExtensions gives that list again.
C20_ReorderIdempotent ==
    pc = "dependencies" => vkbBuildReorderExtensions(context.extensions) = context.extensions


-----------------------------------------------------------------------------
(* The main emitter on registries whose extensions require an include: one *)
(* extension without a platform, two for win32.                            *)

LayoutBuilds ==
    {Build(MainPlatforms, <<[name |-> "KHR", author |-> "Khronos", contact |-> ""]>>,
           MainTypes(member), MainEnums, MainCommands,
           <<BuildFeature("VK_VERSION_1_0", "1.0",
                 <<BuildRequire(<<"VK_API_VERSION", "VkFooFlags">>,
                                <<EnumReference("VK_UUID_SIZE")>>, <<"vkCmd">>)>>)>>,
           <<BuildExtension("VK_KHR_foo", "1", "", "", "",
                 <<BuildRequire(fooInclude \o fooTypes,
                                <<ValuedDefine("VK_KHR_FOO_SPEC_VERSION", "1")>>, <<>>)>>),
             BuildExtension("VK_KHR_win32_foo", "2", "win32", "", "",
                 <<BuildRequire(win32Types,
                                <<ValuedDefine("VK_KHR_WIN32_FOO_SPEC_VERSION", "2")>>, <<>>)>>),
             BuildExtension("VK_KHR_win32_bar", "3", "win32", "", "",
                 <<BuildRequire(<<"windows.h">>,
                                <<ValuedDefine("VK_KHR_WIN32_BAR_SPEC_VERSION", "1")>>,
                                <<"vkCmdKHR">>)>>)>>) :
        member \in {"uint32_t", "VkFooFlags"},
        fooInclude \in {<<>>, <<"windows.h">>},
        fooTypes \in {<<>>, <<"VkFooFlagsKHR">>, <<"VkBarKHR">>, <<"VkDevice">>},
        win32Types \in {<<>>, <<"VkFooFlagBitsKHR">>, <<"PFN_vkBarCallback">>}}

InitLayout ==
    /\ context \in LayoutBuilds
    /\ codegenState = EmptyCodeGenState
    /\ codeOut = <<>>
    /\ fragments = <<>>
    /\ pc = "main"
    /\ iPlatform = 1
    /\ NDEBUG \in BOOLEAN
    /\ ToolAtRest
    /\ LoaderAtRest

SpecLayout == InitLayout /\ [][NextMain]_vars

\* The names of the features and extensions of the registry.
BlockNames ==
    {context.features[i].name : i \in 1..Len(context.features)}
    \cup {context.extensions[i].name : i \in 1..Len(context.extensions)}

\* The names that the define pass of the dependencies writes: types of
\* category define and #define-style enums.
DependencyDefineNames ==
    {context.types[i].name : i \in {k \in 1..Len(context.types) : context.types[k].category = "define"}}
    \cup {context.enums[i].enums[1].name :
             i \in {k \in 1..Len(context.enums) : context.enums[k].type = ""}}

\* The place of a category in the layout.
CategoryStep(category) ==
    CASE category \in {"define"} -> 3
      [] category \in {"basetype"} -> 4
      [] category \in {"handle"} -> 5
      [] category \in {"bitmask", "enum", "flags64"} -> 6
      [] category \in {"struct", "union", "funcpointer"} -> 7
      [] OTHER -> 8

\* The place of a written declaration in the layout of a block: 0 the line
\* #define <name> 1, 1 an include, 2 a valued #define-style enum of a require
\* block, 3..7 the dependencies by category, 8 a command typedef.
LayoutStep(decl) ==
    CASE decl.kind = "define" /\ decl.name \in BlockNames /\ decl.rhs = "1" -> 0
      [] decl.kind = "include" -> 1
      [] decl.kind = "define" /\ ~(decl.name \in BlockNames /\ decl.rhs = "1") ->
             IF decl.name \in DependencyDefineNames THEN 3 ELSE 2
      [] decl.kind = "alias" ->
             CategoryStep(context.types[vkbBuildFindTypeByName(context, decl.name)].category)
      [] decl.kind = "command" -> 8
      [] OTHER -> CategoryStep(decl.kind)

IsGuardLine(decl) == decl.kind \in {"ifdef", "endif"}

\* Declaration i continues the block it stands in, at the same step of the
\* layout as the declaration before it or at a later one.
ContinuesBlock(i) ==
    /\ i > 1
    /\ ~IsGuardLine(codeOut[i - 1])
    /\ LayoutStep(codeOut[i - 1]) <= LayoutStep(codeOut[i])

\* Declaration i is one of the includes that open a platform guard.
OpensGuard(i) ==
    /\ codeOut[i].kind = "include"
    /\ \E k \in 1..(i - 1) :
           /\ codeOut[k].kind = "ifdef"
           /\ \A m \in (k + 1)..i : codeOut[m].kind = "include"

\* Declaration i stands after the #ifdef of a platform.
InGuard(i) ==
    \E k \in 1..(i - 1) :
        codeOut[k].kind = "ifdef" /\ \A m \in (k + 1)..i : codeOut[m].kind # "endif"

\* C21 as claimed: what is written for a feature or an extension, guarded by a
\* platform or not, keeps the layout: the line #define <name> 1 first, then
\* the includes, the valued #define-style enums, the dependencies by category
\* and the command typedefs.
C21_BlockLayout ==
    \A i \in 1..Len(codeOut) :
        ~IsGuardLine(codeOut[i]) => (LayoutStep(codeOut[i]) = 0 \/ ContinuesBlock(i))

\* C21 amended: a feature and an extension without a platform keep that
\* layout; the includes of the extensions of a platform are written together
\* right behind the #ifdef of the platform, ahead of the first #define <name> 1,
\* and the block of each guarded extension keeps the layout without includes.
C21_BlockLayoutGuardIncludesFirst ==
    \A i \in 1..Len(codeOut) :
        ~IsGuardLine(codeOut[i]) =>
            \/ LayoutStep(codeOut[i]) = 0
            \/ OpensGuard(i)
            \/ ContinuesBlock(i) /\ ~(InGuard(i) /\ codeOut[i].kind = "include")

\* The emitter has finished: the win32 guard opens with an include, ahead of
\* the #define line of its first extension, and holds a command typedef.
C21_Witness ==
    /\ pc = "generated"
    /\ \E i \in 2..(Len(codeOut) - 1) :
           /\ codeOut[i].kind = "include"
           /\ codeOut[i - 1].kind = "ifdef"
           /\ codeOut[i + 1] = Decl("define", "VK_KHR_win32_foo", "1", <<>>)
    /\ \E j \in 2..Len(codeOut) : codeOut[j].kind = "command" /\ InGuard(j)


-----------------------------------------------------------------------------
(* The main emitter on registries with a 64-bit flags type whose bits enum *)
(* has aliases among its own items and among the items that a feature and  *)
(* an extension add to it.                                                 *)

\* <enum extends="VkFooFlagBits2" .../> of a require block.
Flags64Item(name, alias, value, bitpos) ==
    BuildRequireEnum(name, alias, value, "VkFooFlagBits2", bitpos, "", "", "")

Flags64Builds ==
    {Build(MainPlatforms, <<[name |-> "KHR", author |-> "Khronos", contact |-> ""]>>,
           FlagsTypes(64),
           <<BuildEnums("VkFooFlagBits2", "bitmask",
                        <<BuildEnum("VK_FOO_A_BIT", "", "", bitposA),
                          BuildEnum("VK_FOO_B_BIT", aliasB, "", "")>>)>>,
           <<>>,
           <<BuildFeature("VK_VERSION_1_0", "1.0",
                 <<BuildRequire(<<"VkFooFlags2">>, <<>>, <<>>)>>),
             BuildFeature("VK_VERSION_1_1", "1.1",
                 <<BuildRequire(<<>>,
                                <<Flags64Item("VK_FOO_F_BIT", "", itemF[1], itemF[2]),
                                  Flags64Item("VK_FOO_FA_BIT", aliasFA, "", "")>>,
                                <<>>)>>)>>,
           <<BuildExtension("VK_KHR_foo", "2", "", "", "",
                 <<BuildRequire(<<>>,
                                <<Flags64Item("VK_FOO_E_BIT_KHR", "", "", "35"),
                                  Flags64Item("VK_FOO_EA_BIT_KHR", aliasEA, "", "")>>,
                                <<>>)>>)>>) :
        bitposA \in {"3", "40"},
        aliasB \in {"VK_FOO_A_BIT", "VK_FOO_F_BIT", "VK_FOO_EA_BIT_KHR", "VK_FOO_MISSING_BIT"},
        itemF \in {<<"0x00000010", "">>, <<"", "34">>},
        aliasFA \in {"VK_FOO_A_BIT", "VK_FOO_B_BIT", "VK_FOO_E_BIT_KHR"},
        aliasEA \in {"VK_FOO_A_BIT", "VK_FOO_F_BIT", "VK_FOO_FA_BIT", "VK_FOO_B_BIT"}}

InitFlags64 ==
    /\ context \in Flags64Builds
    /\ codegenState = EmptyCodeGenState
    /\ codeOut = <<>>
    /\ fragments = <<>>
    /\ pc = "main"
    /\ iPlatform = 1
    /\ NDEBUG \in BOOLEAN
    /\ ToolAtRest
    /\ LoaderAtRest

SpecFlags64 == InitFlags64 /\ [][NextMain]_vars

\* Every item the registry gives: those of the <enums> and those of the
\* require blocks of the features and of the extensions.
RegistryItems ==
    {BuildEnum(i.name, i.alias, i.value, i.bitpos) :
        i \in Range(AllEnumItems(context)) \cup Range(FeatureRequireEnums(context))
                \cup Range(ExtensionRequireEnums(context))}

NoItem == BuildEnum("", "", "", "")

\* The item at the end of the alias chain that starts at a name; NoItem when
\* the chain leaves the registry or does not end within the given steps.
RECURSIVE ChainEnd(_, _)
ChainEnd(name, steps) ==
    IF ~(\E item \in RegistryItems : item.name = name) THEN NoItem
    ELSE With(CHOOSE item \in RegistryItems : item.name = name, LAMBDA item :
             IF item.alias = "" THEN item
             ELSE IF steps = 0 THEN NoItem
             ELSE ChainEnd(item.alias, steps - 1))

\* The literal of an item that has a value or a bitpos, in a flags type T.
ConcreteText(T, item) ==
    IF item.bitpos = "" THEN item.value
    ELSE IF atoi(item.bitpos) < 32 THEN Literal32(atoi(item.bitpos))
    ELSE CastAndShift(T, atoi(item.bitpos))

\* C22: in a 64-bit flags type an item that is an alias, and whose alias chain
\* (through base items, feature-added and extension-added items) ends at an
\* item with a value or a bitpos, is written with the value or the bit literal
\* of that item, never as NAME = ALIAS.
C22_AliasesEvaluated ==
    \A d \in 1..Len(codeOut) :
        codeOut[d].kind = "flags64" =>
            \A i \in 1..Len(codeOut[d].items) :
                \A item \in {r \in RegistryItems : r.name = codeOut[d].items[i].name /\ r.alias # ""} :
                    With(ChainEnd(item.name, Cardinality(RegistryItems)), LAMBDA end :
                        (end.value # "" \/ end.bitpos # "") =>
                            /\ codeOut[d].items[i].text = ConcreteText(codeOut[d].name, end)
                            /\ codeOut[d].items[i].text # item.alias)

\* The emitter has finished; the base item VK_FOO_B_BIT, an alias of an item
\* added by the extension that is an alias of the item at bitpos 34 added by
\* the feature, carries the literal of bit 34.
C22_Witness ==
    /\ pc = "generated"
    /\ \E d \in 1..Len(codeOut) :
        /\ codeOut[d].kind = "flags64"
        /\ \E i \in 1..Len(codeOut[d].items) :
            /\ codeOut[d].items[i].name = "VK_FOO_B_BIT"
            /\ codeOut[d].items[i].text =
                   "(VkFooFlagBits2)(((VkFooFlagBits2)0x00000004 << 32) | (0x00000000))"
    /\ \E b \in Range(AllEnumItems(context)) : b.alias = "VK_FOO_EA_BIT_KHR"
    /\ \E e \in Range(ExtensionRequireEnums(context)) : e.alias = "VK_FOO_F_BIT"

-----------------------------------------------------------------------------
(* The main emitter on registries with one enum (regular with a vendor tag, *)
(* the bits of a 32-bit flags type, or the bits of a 64-bit flags type)     *)
(* that a feature and an extension extend with two items each, aliased or   *)
(* not, under names that may repeat each other and the base items.          *)

PhaseKinds == {"enum", "bits32", "bits64"}

PhaseEnumName(kind) ==
    CASE kind = "enum" -> "VkBarKHR" [] kind = "bits32" -> "VkFooFlagBits"
      [] kind = "bits64" -> "VkFooFlagBits2"

\* The type the feature requires, and the types of the registry.
PhaseTypeName(kind) ==
    CASE kind = "enum" -> "VkBarKHR" [] kind = "bits32" -> "VkFooFlags"
      [] kind = "bits64" -> "VkFooFlags2"
PhaseTypes(kind) ==
    CASE kind = "enum" -> <<BuildType("VkBarKHR", "enum", "", "", "", "", "", <<>>, "", <<>>)>>
      [] kind = "bits32" -> FlagsTypes(32)
      [] kind = "bits64" -> FlagsTypes(64)

\* <enums> with a first item and an alias of it.
PhaseEnums(kind) ==
    <<BuildEnums(PhaseEnumName(kind), IF kind = "enum" THEN "enum" ELSE "bitmask",
                 <<IF kind = "enum" THEN BuildEnum("VK_X_A", "", "0", "")
                                    ELSE BuildEnum("VK_X_A", "", "", "3"),
                   BuildEnum("VK_X_B", "VK_X_A", "", "")>>)>>

\* <enum extends=... name=.../> of a require block: an alias of the first
\* item, or an item with a value (regular enum) or a bitpos (bits).
PhaseItem(kind, name, aliased) ==
    BuildRequireEnum(name, IF aliased THEN "VK_X_A" ELSE "",
                     IF ~aliased /\ kind = "enum" THEN "5" ELSE "",
                     PhaseEnumName(kind),
                     IF ~aliased /\ kind # "enum" THEN "4" ELSE "",
                     "", "", "")

PhaseItemNames == {"VK_X_A", "VK_X_M", "VK_X_N"}

PhaseBuilds ==
    {Build(MainPlatforms, <<[name |-> "KHR", author |-> "Khronos", contact |-> ""]>>,
           PhaseTypes(kind), PhaseEnums(kind), <<>>,
           <<BuildFeature("VK_VERSION_1_0", "1.0",
                 <<BuildRequire(<<PhaseTypeName(kind)>>, <<>>, <<>>)>>),
             BuildFeature("VK_VERSION_1_1", "1.1",
                 <<BuildRequire(<<>>,
                                <<PhaseItem(kind, f1[1], f1[2]), PhaseItem(kind, f2[1], f2[2])>>,
                                <<>>)>>)>>,
           <<BuildExtension("VK_KHR_foo", "2", "", "", "",
                 <<BuildRequire(<<>>,
                                <<PhaseItem(kind, e1[1], e1[2]), PhaseItem(kind, e2[1], e2[2])>>,
                                <<>>)>>)>>) :
        kind \in PhaseKinds,
        f1 \in PhaseItemNames \X BOOLEAN, f2 \in PhaseItemNames \X BOOLEAN,
        e1 \in PhaseItemNames \X BOOLEAN, e2 \in PhaseItemNames \X BOOLEAN}

InitPhases ==
    /\ context \in PhaseBuilds
    /\ codegenState = EmptyCodeGenState
    /\ codeOut = <<>>
    /\ fragments = <<>>
    /\ pc = "main"
    /\ iPlatform = 1
    /\ NDEBUG \in BOOLEAN
    /\ ToolAtRest
    /\ LoaderAtRest

SpecPhases == InitPhases /\ [][NextMain]_vars

\* The phases in which the registry gives a name to an enum: 1 as a base item,
\* 2 and 3 as an item without alias added by a feature and by an extension,
\* 4 and 5 as an aliased item added by a feature and by an extension.
PhasesOf(enumName, name) ==
    {1 : b \in {b \in Range(AllEnumItems(context)) : b.name = name}}
    \cup {IF a.alias = "" THEN 2 ELSE 4 :
            a \in {a \in Range(FeatureRequireEnums(context)) :
                      a.name = name /\ a.extends = enumName}}
    \cup {IF a.alias = "" THEN 3 ELSE 5 :
            a \in {a \in Range(ExtensionRequireEnums(context)) :
                      a.name = name /\ a.extends = enumName}}

\* The name of the closing item of the enums of these registries.
MaxEnumName(enumName) ==
    CASE enumName = "VkBarKHR" -> "VK_BAR_MAX_ENUM_KHR"
      [] enumName = "VkFooFlagBits" -> "VK_FOO_FLAG_BITS_MAX_ENUM"
      [] enumName = "VkFooFlagBits2" -> "VK_FOO_FLAG_BITS2_MAX_ENUM"

\* The items of declaration d that the registry gives: all of them in a 64-bit
\* flags type, all but the last one in an enum.
RegistryBody(d) ==
    IF codeOut[d].kind = "flags64" THEN codeOut[d].items
    ELSE SubSeq(codeOut[d].items, 1, Len(codeOut[d].items) - 1)

\* C23: the items of every emitted enum come in four phases, in this order:
\* base items, items without alias added by features, items without alias
\* added by extensions, then aliased added items (of features, then of
\* extensions); no item name occurs twice in an enum; a 32-bit enum ends with
\* exactly one item <TYPENAME>_MAX_ENUM[_VENDORTAG] = 0x7FFFFFFF and a 64-bit
\* flags type has none.
C23_FourPhases ==
    \A d \in 1..Len(codeOut) :
        codeOut[d].kind \in {"enum", "flags64"} =>
            With(RegistryBody(d), LAMBDA body :
                /\ \A i \in 1..Len(body) : PhasesOf(codeOut[d].name, body[i].name) # {}
                /\ \A i, j \in 1..Len(body) :
                       i < j => MinOf(PhasesOf(codeOut[d].name, body[i].name))
                                    <= MinOf(PhasesOf(codeOut[d].name, body[j].name))
                /\ \A i, j \in 1..Len(codeOut[d].items) :
                       i # j => codeOut[d].items[i].name # codeOut[d].items[j].name
                /\ \A i \in 1..Len(body) : StrFind(body[i].name, "_MAX_ENUM", 1) = 0
                /\ codeOut[d].kind = "enum" =>
                       /\ Len(codeOut[d].items) > 0
                       /\ codeOut[d].items[Len(codeOut[d].items)]
                              = Item(MaxEnumName(codeOut[d].name), "0x7FFFFFFF"))

\* The emitter has finished and has written an enum ending with the item
\* VK_BAR_MAX_ENUM_KHR in which an item without alias added by the extension
\* stands ahead of an aliased item added by the feature, and a name that the
\* feature and the extension both add stands once.
C23_Witness ==
    /\ pc = "generated"
    /\ \E d \in 1..Len(codeOut) :
        /\ codeOut[d].kind = "enum" /\ codeOut[d].name = "VkBarKHR"
        /\ codeOut[d].items[Len(codeOut[d].items)].name = "VK_BAR_MAX_ENUM_KHR"
        /\ \E i, j \in 1..Len(codeOut[d].items) :
            /\ i < j
            /\ PhasesOf("VkBarKHR", codeOut[d].items[i].name) = {3}
            /\ PhasesOf("VkBarKHR", codeOut[d].items[j].name) = {4, 5}

-----------------------------------------------------------------------------
(* The order of generation and substitution in the tag loop.               *)

\* A step of the tag loop that generates the code of tag iTag.
GeneratesFragment ==
    /\ pc = "generated"
    /\ iTag <= Len(Tags)
    /\ iTag' = iTag + 1 \/ pc' # "generated"

\* C24 as the specification states it: every fragment is generated before the
\* first substitution into the template, that is, whenever the code of a tag
\* is generated, outputStr still is the text of the template.
C24_AllGeneratedBeforeSubstitution ==
    [][GeneratesFragment => outputStr = files[VKB_BUILD_TEMPLATE_PATH].text]_vars

\* C24 as the code has it: the fragments are generated one per iteration, each
\* whole before it is substituted.  When the code of tag iTag is generated,
\* the tags ahead of it in the loop have been replaced already and iTag and
\* the tags behind it stand where the template has them; after the step tag
\* iTag has been replaced.
C24_GeneratedThenSubstitutedTagByTag ==
    [][GeneratesFragment =>
          /\ \A k \in 1..(iTag - 1) : StrFind(outputStr, Tags[k], 1) = 0
          /\ \A k \in iTag..Len(Tags) :
                 StrFind(files[VKB_BUILD_TEMPLATE_PATH].text, Tags[k], 1) # 0
                     => StrFind(outputStr, Tags[k], 1) # 0
          /\ iTag' = iTag + 1 => StrFind(outputStr', Tags[iTag], 1) = 0]_vars

\* The loop is about to generate the code of its last tag: the main fragment
\* stands in outputStr in place of its tag, and the last tag stands where the
\* template has it.
C24_Witness ==
    /\ pc = "generated"
    /\ iTag = Len(Tags)
    /\ StrFind(files[VKB_BUILD_TEMPLATE_PATH].text, Tags[1], 1) # 0
    /\ StrFind(outputStr, Tags[1], 1) = 0
    /\ StrFind(outputStr, Tags[iTag], 1) # 0
    /\ outputStr # files[VKB_BUILD_TEMPLATE_PATH].text

-----------------------------------------------------------------------------
(* The reference counter and the library handle of the emitted loader.     *)

\* C26: a call of vkbInit changes g_vkbInitCount according to its result
\* alone: by exactly +1 when it returns VK_SUCCESS, not at all when it returns
\* an error, whether pAPI is NULL or not and whether the loader was
\* initialised before or not.
C26_InitCountsOnce ==
    [][lastCall'.fn = "vkbInit" =>
          /\ lastCall'.result = "VK_SUCCESS" => g_vkbInitCount' = g_vkbInitCount + 1
          /\ lastCall'.result \notin {"VK_SUCCESS", "crashed"} => g_vkbInitCount' = g_vkbInitCount]_vars

\* C27: g_vkbVulkanSO is not NULL whenever g_vkbInitCount is above 0, and it
\* is NULL, with every handle that was opened closed again, whenever
\* g_vkbInitCount is 0, also after a vkbInit that failed after it had opened
\* the library.
C27_HandleFollowsCounter ==
    lastCall.result # "crashed" =>
        /\ g_vkbInitCount > 0 => g_vkbVulkanSO # "NULL"
        /\ g_vkbInitCount = 0 => (g_vkbVulkanSO = "NULL" /\ dl.opened = dl.closed)

-----------------------------------------------------------------------------
(* The pipeline behind the parser, on registries whose three extensions    *)
(* are promoted to one another or to a core version in every way.          *)

\* The command each extension requires.
FrameCommandOf(name) ==
    CASE name = "VK_KHR_a" -> "vkCmdDrawKHR"
      [] name = "VK_KHR_b" -> "vkGetGlobalEXT"
      [] name = "VK_EXT_c" -> "vkQueueSubmit"

FrameExtension(name, number, platform, promotedto) ==
    BuildExtension(name, number, platform, promotedto, "",
                   <<BuildRequire(<<>>, <<>>, <<FrameCommandOf(name)>>)>>)

FrameBuilds ==
    {Build(MainPlatforms, <<[name |-> "KHR", author |-> "Khronos", contact |-> ""]>>,
           LoaderTypes("VkPhysicalDevice", "VkDevice"), <<>>, LoaderCommands("vkCmdDrawKHR"),
           <<BuildFeature("VK_VERSION_1_0", "1.0",
                 <<BuildRequire(<<>>, <<>>,
                       <<"vkGetInstanceProcAddr", "vkGetDeviceProcAddr", "vkCreateInstance",
                         "vkCmdDraw">>)>>)>>,
           <<FrameExtension("VK_KHR_a", "1", "", a),
             FrameExtension("VK_KHR_b", "2", platform, b),
             FrameExtension("VK_EXT_c", "3", "", c)>>) :
        a \in SuccessorNames("VK_KHR_a"), b \in SuccessorNames("VK_KHR_b"),
        c \in SuccessorNames("VK_EXT_c"), platform \in {"", "win32"}}

InitFrame ==
    /\ context \in FrameBuilds
    /\ codegenState = EmptyCodeGenState
    /\ codeOut = <<>>
    /\ fragments = <<>>
    /\ pc = "main"
    /\ iPlatform = 1
    /\ NDEBUG \in BOOLEAN
    /\ ToolAtRest
    /\ LoaderAtRest

SpecFrame == InitFrame /\ [][NextLib]_vars

\* How often a value stands in a sequence.
Occurrences(s, x) == Cardinality({i \in 1..Len(s) : s[i] = x})

\* The code that each generator of a loader fragment gives on a registry.
FragmentOn(ctx, tag) ==
    CASE tag = "vulkan_funcpointers_decl_global" -> vkbBuildGenerateCode_C_FuncPointersDeclGlobal(ctx, 0)
      [] tag = "vulkan_funcpointers_decl_global:4" -> vkbBuildGenerateCode_C_FuncPointersDeclGlobal(ctx, 4)
      [] tag = "load_global_api_funcpointers" -> vkbBuildGenerateCode_C_LoadGlobalAPIFuncPointers(ctx)
      [] tag = "set_struct_api_from_global" -> vkbBuildGenerateCode_C_SetStructAPIFromGlobal(ctx)
      [] tag = "set_global_api_from_struct" -> vkbBuildGenerateCode_C_SetGlobalAPIFromStruct(ctx)
      [] tag = "load_instance_api" -> vkbBuildGenerateCode_C_LoadInstanceAPI(ctx)
      [] tag = "load_device_api" -> vkbBuildGenerateCode_C_LoadDeviceAPI(ctx)
      [] tag = "load_safe_global_api" -> vkbBuildGenerateCode_C_LoadSafeGlobalAPI(ctx)

\* C25: behind the parser no step of the pipeline changes the platforms, the
\* tags, the types, the enum containers, the commands or the features; the
\* extension list changes only in the step of the reorderer, and only into a
\* permutation of itself (nothing added, dropped or duplicated); every
\* fragment generated after the main fragment is the one its generator gives
\* on that same reordered list.
C25_ParsedDataFixed ==
    [][/\ context'.platforms = context.platforms
       /\ context'.tags = context.tags
       /\ context'.types = context.types
       /\ context'.enums = context.enums
       /\ context'.commands = context.commands
       /\ context'.features = context.features
       /\ context'.extensions # context.extensions => pc = "main"
       /\ Len(context'.extensions) = Len(context.extensions)
       /\ \A e \in Range(context.extensions) \cup Range(context'.extensions) :
              Occurrences(context'.extensions, e) = Occurrences(context.extensions, e)
       /\ \A i \in 1..Len(fragments') :
              fragments'[i].code = FragmentOn(context', fragments'[i].tag)]_vars

\* Every fragment has been generated, on a list that the reorderer has
\* changed: VK_KHR_a, promoted to VK_EXT_c, stands behind VK_KHR_b.
C25_Witness ==
    /\ pc = "generated"
    /\ Len(fragments) = Len(LoaderTags)
    /\ Len(context.extensions) = 3
    /\ context.extensions[2].name = "VK_KHR_a"
    /\ context.extensions[2].promotedto = "VK_EXT_c"
    /\ context.extensions[1].name = "VK_KHR_b"

-----------------------------------------------------------------------------
(* The assertions of the code generation state.                            *)

\* C28: the assertions of MarkDefineAsOutput, MarkTypeAsOutput and
\* MarkCommandAsOutput never fail: no run of the emitter ends in abort(), for
\* any registry, one in which two require blocks list the same #define-style
\* enum with a value included.
C28_AssertionsHold == pc # "aborted"

-----------------------------------------------------------------------------
(* The main emitter on registries with three platforms and two extensions  *)
(* that may stand on any of them or on none, and that may require the same *)
(* struct and the same command.                                            *)

BlockPlatforms ==
    << BuildPlatform("xlib", "VK_USE_PLATFORM_XLIB_KHR"),
       BuildPlatform("mir", "VK_USE_PLATFORM_MIR_KHR"),
       BuildPlatform("win32", "VK_USE_PLATFORM_WIN32_KHR") >>

BlockTypes ==
    << BuildType("VkDevice", "handle", "", "VK_DEFINE_HANDLE", "", "", "", <<>>, "", <<>>),
       BuildType("VkSurfaceInfo", "struct", "", "", "", "", "", <<Param("uint32_t", "")>>, "", <<>>) >>

BlockCommands ==
    << BuildCommand("vkCmd", "", "void", <<Param("VkDevice", "")>>),
       BuildCommand("vkCreateSurface", "", "VkResult", <<Param("VkDevice", "")>>) >>

\* The <extension> elements, with their supported attribute.
BlockElements(supportedA, platformA, typesA, commandsA, platformB) ==
    << [supported |-> supportedA,
        extension |-> BuildExtension("VK_KHR_surface_a", "1", platformA, "", "",
                          <<BuildRequire(typesA, <<>>, commandsA)>>)],
       [supported |-> "vulkan",
        extension |-> BuildExtension("VK_KHR_surface_b", "2", platformB, "", "",
                          <<BuildRequire(<<"VkSurfaceInfo">>, <<>>, <<"vkCreateSurface">>)>>)] >>

BlockPlatformNames == {"", "xlib", "mir", "win32"}

BlockBuilds ==
    {Build(BlockPlatforms, <<[name |-> "KHR", author |-> "Khronos", contact |-> ""]>>,
           BlockTypes, <<>>, BlockCommands,
           <<BuildFeature("VK_VERSION_1_0", "1.0",
                 <<BuildRequire(<<"VkDevice">>, <<>>, <<"vkCmd">>)>>)>>,
           LoaderExtensions(BlockElements(supportedA, platformA, typesA, commandsA, platformB))) :
        supportedA \in {"vulkan", "disabled"},
        platformA \in BlockPlatformNames,
        typesA \in {<<>>, <<"VkSurfaceInfo">>},
        commandsA \in {<<>>, <<"vkCreateSurface">>},
        platformB \in BlockPlatformNames}

InitBlocks ==
    /\ context \in BlockBuilds
    /\ codegenState = EmptyCodeGenState
    /\ codeOut = <<>>
    /\ fragments = <<>>
    /\ pc = "main"
    /\ iPlatform = 1
    /\ NDEBUG \in BOOLEAN
    /\ ToolAtRest
    /\ LoaderAtRest

SpecBlocks == InitBlocks /\ [][NextMain]_vars

\* The macro of the #ifdef that declaration i stands in, "" outside any guard.
GuardOf(i) ==
    IF ~InGuard(i) THEN ""
    ELSE codeOut[CHOOSE k \in 1..(i - 1) :
                     /\ codeOut[k].kind = "ifdef"
                     /\ \A m \in (k + 1)..i : ~IsGuardLine(codeOut[m])].name

\* The macro that the registry gives for a platform, "" for no platform.
ProtectOf(platform) ==
    IF platform = "" THEN ""
    ELSE (CHOOSE p \in Range(context.platforms) : p.name = platform).protect

\* The lines #define <name> 1 of the main fragment.
BlockLines(name) == {i \in 1..Len(codeOut) : codeOut[i] = Decl("define", name, "1", <<>>)}

\* C29: when the main fragment is complete, every extension that the parser
\* has kept has its block in it exactly once: outside any guard when the
\* extension has no platform, inside the #ifdef of the protect macro of its
\* platform when it has one.
C29_KeptExtensionsHaveOneBlock ==
    pc = "generated" =>
        \A e \in 1..Len(context.extensions) :
            /\ Cardinality(BlockLines(context.extensions[e].name)) = 1
            /\ \A i \in BlockLines(context.extensions[e].name) :
                   GuardOf(i) = ProtectOf(context.extensions[e].platform)

\* The main fragment is complete for a registry of two kept extensions, one
\* without platform and one of win32 whose block stands in the guard of
\* VK_USE_PLATFORM_WIN32_KHR.
C29_Witness ==
    /\ pc = "generated"
    /\ Len(context.extensions) = 2
    /\ context.extensions[1].platform = ""
    /\ context.extensions[2].platform = "win32"
    /\ \E i \in BlockLines("VK_KHR_surface_b") : GuardOf(i) = "VK_USE_PLATFORM_WIN32_KHR"
    /\ \E i \in BlockLines("VK_KHR_surface_a") : GuardOf(i) = ""

\* The names that the block of an extension relies on: the types of the
\* registry its require blocks list (includes apart) and the typedefs of the
\* commands they list.
NeededNames(extension) ==
    UNION {{t \in Range(extension.requires[r].types) :
               \E type \in Range(context.types) : type.name = t /\ type.category # "include"}
           \cup {FunctionTypedefName(c) : c \in
                    {c \in Range(extension.requires[r].commands) :
                        \E command \in Range(context.commands) : command.name = c}} :
           r \in 1..Len(extension.requires)}

\* C30: when the main fragment is complete, every type and every command
\* typedef that the block of an extension relies on is declared where that
\* block sees it: outside any guard, or inside the guard of the extension's
\* own platform.  A name first declared inside the #ifdef of one platform is
\* never the only declaration that an extension of another platform has.
C30_DependenciesVisible ==
    pc = "generated" =>
        \A e \in 1..Len(context.extensions) :
            \A name \in NeededNames(context.extensions[e]) :
                \E j \in 1..Len(codeOut) :
                    /\ Declares(codeOut[j], name)
                    /\ GuardOf(j) \in {"", ProtectOf(context.extensions[e].platform)}

=============================================================================
